---- MODULE Spec2Model ----
(***************************************************************************)
(* Detection-to-score pipeline of the kitchen hygiene analyser:            *)
(*   parseVLMResults  (src/lib/vlm-response-parser.ts)                      *)
(*   mapDetections    (src/lib/detection-mapper.ts)                         *)
(*   calculateScores  (src/lib/scoring-engine.ts)                           *)
(*   generateSuggestions (src/lib/scoring-engine.ts)                        *)
(*                                                                         *)
(* JavaScript numbers are modelled as exact rationals [num, den] with      *)
(* den > 0, extended by the three IEEE specials a division by zero can     *)
(* produce: NaN, Infinity and -Infinity (den = 0).  Where the rounding of   *)
(* binary floating point matters (the confidence sums of parseVLMResults), *)
(* a number is carried as a binary64 value [bits, exp]: the 53 bits of its *)
(* significand and the exponent of the last bit.                           *)
(***************************************************************************)
EXTENDS Integers, Sequences, FiniteSets, TLC

VARIABLES pc, analyses, labelResults, totalFrames, detections, result

\* the improvements list of the report (generateSuggestions)
VARIABLES improvements

\* a run of analyzeVideo: the recorded video, the duration used, the number of
\* frames extracted so far, the frames handed to analyzeFramesBatch, per frame
\* the number of analyzeFrame calls, what its fetch met and the state of its
\* promise, the onProgress notifications so far, how the run ended and the
\* AnalysisResult it returned
VARIABLES video, actualDuration, extracted, subsampledFrames, calls, exchanges, settled,
          notifications, outcome, analysisResult

clientVars == <<video, actualDuration, extracted, subsampledFrames, calls, exchanges,
                settled, notifications, outcome, analysisResult>>

\* what the aggregation and scoring steps leave alone
runVars == <<improvements, clientVars>>

\* successive calls of the aggregator: the list handed to each call and the
\* aggregate each call so far returned
VARIABLES callInputs, callResults

aggregatorVars == <<callInputs, callResults>>

\* the state of the other parts of the program
\* the state of the page component Home (src/app/page.tsx): analysisStatus and
\* analysisResults (null is <<>>, a value v is <<v>>), the state named error,
\* the user that a handleAnalysisStart call still waiting for analyzeVideo
\* closed over (<<>> when no call is waiting), the signed-in user, the
\* stash pendingResultsRef.current, the requests sent to /api/saveAnalysis and
\* the number of handleAnalysisStart calls so far
VARIABLES analysisStatus, analysisResults, pageError, startedAs, user, pendingResultsRef,
          saves, analysesStarted

pageVars == <<analysisStatus, analysisResults, pageError, startedAs, user,
              pendingResultsRef, saves, analysesStarted>>

\* a call of detectLabelsBatch (src/lib/cv-service.ts): its argument frames,
\* the loop variable i, per frame the state of its detectLabels call, the
\* locals processedCount, detections and errors, the calls of onProgress so
\* far, and what the call returned or threw
VARIABLES batchFrames, batchStart, labelCalls, processedCount, batchDetections,
          batchErrors, progressCalls, batchReturn

batchVars == <<batchFrames, batchStart, labelCalls, processedCount, batchDetections,
               batchErrors, progressCalls, batchReturn>>

\* the table public.vendors as committed, the row versions written by
\* transactions that have not committed yet (each holds the lock of its row),
\* and the calls of claim_vendor with their arguments, locals and outcome
VARIABLES vendors, rowLocks, claimCalls

vendorVars == <<vendors, rowLocks, claimCalls>>

\* what a step of analyzeVideo leaves alone
offPageVars == <<aggregatorVars, batchVars, vendorVars>>

\* the state of the analysis pipeline besides pc
analysisVars == <<analyses, labelResults, totalFrames, detections, result, runVars>>

restVars == <<offPageVars, pageVars>>

vars == <<pc, analyses, labelResults, totalFrames, detections, result, runVars, restVars>>

----------------------------------------------------------------------------
(* Bounds of the explored inputs *)

\* longest list of frame analyses / label results handed to the aggregators
MaxFrames == 2

\* most frames of a two-category profile (one category early, bare hands late)
MaxProfileFrames == 10

----------------------------------------------------------------------------
(* JavaScript number arithmetic *)

Abs(i) == IF i < 0 THEN -i ELSE i

RECURSIVE GCD(_, _)
GCD(a, b) == IF b = 0 THEN a ELSE GCD(b, a % b)

\* the rational n/d in lowest terms, d # 0
Rat(n, d) ==
  LET g == GCD(Abs(n), Abs(d))
      s == IF d < 0 THEN -1 ELSE 1
  IN  [num |-> s * (n \div g), den |-> s * (d \div g)]

Num(i) == [num |-> i, den |-> 1]

NaN == [num |-> 0, den |-> 0]

Infinity == [num |-> 1, den |-> 0]

NegInfinity == [num |-> -1, den |-> 0]

IsNaN(x) == x.den = 0 /\ x.num = 0

IsFinite(x) == x.den # 0

Sign(x) == IF x.num > 0 THEN 1 ELSE IF x.num < 0 THEN -1 ELSE 0

Signed(s) == IF s > 0 THEN Infinity ELSE IF s < 0 THEN NegInfinity ELSE NaN

----------------------------------------------------------------------------
(* binary64: positive normal numbers, round to nearest, ties to even *)

SIGNIFICAND_BITS == 53

IsDouble(x) == "bits" \in DOMAIN x

Zeros(n) == [i \in 1..n |-> 0]

\* the four bits of each hexadecimal digit, most significant first
HexBits(digit) ==
  <<(digit \div 8) % 2, (digit \div 4) % 2, (digit \div 2) % 2, digit % 2>>

RECURSIVE HexToBits(_)
HexToBits(digits) ==
  IF digits = <<>> THEN <<>> ELSE HexBits(Head(digits)) \o HexToBits(Tail(digits))

\* the number written 0x1.<13 hex digits>p<power>
Double(digits, power) ==
  [bits |-> <<1>> \o HexToBits(digits), exp |-> power - (SIGNIFICAND_BITS - 1)]

StripLeadingZeros(bits) ==
  IF \A i \in 1..Len(bits) : bits[i] = 0 THEN <<>>
  ELSE LET first == CHOOSE i \in 1..Len(bits) :
                       bits[i] = 1 /\ \A j \in 1..(i - 1) : bits[j] = 0
       IN  SubSeq(bits, first, Len(bits))

RECURSIVE AddRange(_, _, _, _, _)
\* the bits lo..hi of x + y + carry and the carry out of them: the lower
\* half first, then the upper half with its carry
AddRange(x, y, lo, hi, carry) ==
  IF lo = hi
  THEN [bits |-> <<(x[lo] + y[lo] + carry) % 2>>, carry |-> (x[lo] + y[lo] + carry) \div 2]
  ELSE LET mid   == (lo + hi) \div 2
           lower == AddRange(x, y, mid + 1, hi, carry)
           upper == IF lower.carry = 1 THEN AddRange(x, y, lo, mid, 1)
                    ELSE AddRange(x, y, lo, mid, 0)
       IN  [bits |-> upper.bits \o lower.bits, carry |-> upper.carry]

\* sum of two bit strings of the same length and a carry
AddBits(x, y, carry) ==
  IF x = <<>> THEN IF carry = 1 THEN <<1>> ELSE <<>>
  ELSE LET sum == AddRange(x, y, 1, Len(x), carry)
       IN  IF sum.carry = 1 THEN <<1>> \o sum.bits ELSE sum.bits

\* the exact value bits * 2^exp (plus a nonzero rest below the last bit when
\* sticky) rounded to 53 significant bits
RoundBits(bits, exp, sticky) ==
  LET s == StripLeadingZeros(bits)
  IN  IF Len(s) <= SIGNIFICAND_BITS
      THEN [bits |-> s \o Zeros(SIGNIFICAND_BITS - Len(s)),
            exp  |-> exp - (SIGNIFICAND_BITS - Len(s))]
      ELSE LET kept    == SubSeq(s, 1, SIGNIFICAND_BITS)
               rest    == SubSeq(s, SIGNIFICAND_BITS + 1, Len(s))
               below   == sticky \/ \E i \in 2..Len(rest) : rest[i] = 1
               roundUp == rest[1] = 1 /\ (below \/ kept[SIGNIFICAND_BITS] = 1)
               up      == AddBits(kept, Zeros(SIGNIFICAND_BITS), 1)
           IN  IF ~roundUp THEN [bits |-> kept, exp |-> exp + Len(rest)]
               ELSE IF Len(up) = SIGNIFICAND_BITS
               THEN [bits |-> up, exp |-> exp + Len(rest)]
               ELSE [bits |-> SubSeq(up, 1, SIGNIFICAND_BITS), exp |-> exp + Len(rest) + 1]

\* a + b
DoubleAdd(a, b) ==
  LET hi == IF a.exp >= b.exp THEN a ELSE b
      lo == IF a.exp >= b.exp THEN b ELSE a
      x  == hi.bits \o Zeros(hi.exp - lo.exp)
      y  == Zeros(Len(x) - Len(lo.bits)) \o lo.bits
  IN  RoundBits(AddBits(x, y, 0), lo.exp, FALSE)

RECURSIVE DivideRange(_, _, _, _, _)
\* long division of the bits lo..hi, entered with a remainder, by a positive
\* integer: the quotient bits and the remainder left
DivideRange(bits, n, lo, hi, rem) ==
  IF lo = hi
  THEN LET r == 2 * rem + bits[lo]
       IN  IF r >= n THEN [quotient |-> <<1>>, rem |-> r - n]
           ELSE [quotient |-> <<0>>, rem |-> r]
  ELSE LET mid   == (lo + hi) \div 2
           upper == DivideRange(bits, n, lo, mid, rem)
           lower == DivideRange(bits, n, mid + 1, hi, upper.rem)
       IN  [quotient |-> upper.quotient \o lower.quotient, rem |-> lower.rem]

\* a / n for a positive integer n
DoubleDiv(a, n) ==
  LET extended == a.bits \o Zeros(n + 1)
      divided  == DivideRange(extended, n, 1, Len(extended), 0)
  IN  RoundBits(divided.quotient, a.exp - (n + 1), divided.rem # 0)

----------------------------------------------------------------------------

\* a * b
NumMul(a, b) ==
  IF IsNaN(a) \/ IsNaN(b) THEN NaN
  ELSE IF ~IsFinite(a) \/ ~IsFinite(b) THEN Signed(Sign(a) * Sign(b))
  ELSE Rat(a.num * b.num, a.den * b.den)

\* a / b  (x/0 is NaN for x = 0 and +-Infinity otherwise)
NumDiv(a, b) ==
  IF IsNaN(a) \/ IsNaN(b) THEN NaN
  ELSE IF ~IsFinite(a) THEN (IF IsFinite(b)
                             THEN Signed(Sign(a) * (IF Sign(b) < 0 THEN -1 ELSE 1))
                             ELSE NaN)
  ELSE IF ~IsFinite(b) THEN Num(0)
  ELSE IF b.num = 0 THEN Signed(Sign(a))
  ELSE Rat(a.num * b.den, a.den * b.num)

\* a + b
NumAdd(a, b) ==
  IF IsNaN(a) \/ IsNaN(b) THEN NaN
  ELSE IF ~IsFinite(a) THEN (IF ~IsFinite(b) /\ b # a THEN NaN ELSE a)
  ELSE IF ~IsFinite(b) THEN b
  ELSE LET g == GCD(a.den, b.den)
           l == (a.den \div g) * b.den
       IN  Rat(a.num * (l \div a.den) + b.num * (l \div b.den), l)

NumNeg(a) == [num |-> -a.num, den |-> a.den]

\* sum += confidence, on binary64 values where the confidences are given as
\* such (the sum starts from an exact 0) and on exact values otherwise
ConfidenceAdd(a, b) ==
  IF IsDouble(a) /\ IsDouble(b) THEN DoubleAdd(a, b)
  ELSE IF IsDouble(b) THEN b
  ELSE IF IsDouble(a) THEN a
  ELSE NumAdd(a, b)

\* sum / count
ConfidenceDiv(a, b) == IF IsDouble(a) THEN DoubleDiv(a, b.num) ELSE NumDiv(a, b)

\* a - b
NumSub(a, b) == NumAdd(a, NumNeg(b))

\* a < b  (false as soon as one side is NaN)
NumLt(a, b) ==
  IF IsNaN(a) \/ IsNaN(b) THEN FALSE
  ELSE IF ~IsFinite(a) \/ ~IsFinite(b)
       THEN a # b /\ (a = NegInfinity \/ b = Infinity)
  ELSE a.num * b.den < b.num * a.den

\* a > b
NumGt(a, b) == NumLt(b, a)

\* a >= b
NumGe(a, b) == NumLt(b, a) \/ (~IsNaN(a) /\ a = b)

MathMin(a, b) ==
  IF IsNaN(a) \/ IsNaN(b) THEN NaN ELSE IF NumLt(b, a) THEN b ELSE a

MathMax(a, b) ==
  IF IsNaN(a) \/ IsNaN(b) THEN NaN ELSE IF NumLt(a, b) THEN b ELSE a

\* Math.round: nearest integer, halves up; NaN and the infinities map to themselves
MathRound(x) ==
  IF ~IsFinite(x) THEN x ELSE Num((2 * x.num + x.den) \div (2 * x.den))

\* the operand of "x || fallback": 0 and NaN are falsy
Falsy(x) == IsNaN(x) \/ (IsFinite(x) /\ x.num = 0)

----------------------------------------------------------------------------
(* Sequence helpers (Array.prototype.includes / filter / slice) *)

Includes(seq, x) == \E i \in 1..Len(seq) : seq[i] = x

RECURSIVE Without(_, _)
\* seq.filter(x => !set.has(x))
Without(seq, set) ==
  IF seq = <<>> THEN <<>>
  ELSE IF Head(seq) \in set THEN Without(Tail(seq), set)
  ELSE <<Head(seq)>> \o Without(Tail(seq), set)

\* seq.slice(0, n)
Slice(seq, n) == SubSeq(seq, 1, IF Len(seq) < n THEN Len(seq) ELSE n)

----------------------------------------------------------------------------
(* VLM backend: parseVLMResults *)

\* key order of CATEGORY_CONFIG
CategoryKeys ==
  <<"protectiveGloves", "bareHands", "hairNet", "cleanSurface",
    "properApron", "handwashStation", "pestSigns", "crossContamination">>

Categories == {CategoryKeys[i] : i \in 1..Len(CategoryKeys)}

CATEGORY_CONFIG ==
  [protectiveGloves   |-> [name |-> "Protective Gloves", isPositive |-> TRUE],
   bareHands          |-> [name |-> "Bare Hands", isPositive |-> FALSE],
   hairNet            |-> [name |-> "Hair Net", isPositive |-> TRUE],
   cleanSurface       |-> [name |-> "Clean Surface", isPositive |-> TRUE],
   properApron        |-> [name |-> "Proper Apron", isPositive |-> TRUE],
   handwashStation    |-> [name |-> "Handwash Station", isPositive |-> TRUE],
   pestSigns          |-> [name |-> "Pest Signs", isPositive |-> FALSE],
   crossContamination |-> [name |-> "Cross-Contamination Risk", isPositive |-> FALSE]]

\* the category object both aggregators start from
createEmptyCategory(name, isPositive) ==
  [name |-> name, detectedFrames |-> <<>>, totalDetections |-> 0,
   averageConfidence |-> Num(0), isPositive |-> isPositive]

\* state of parseVLMResults before its loop over the analyses
ParseStart ==
  [framesWithGloves |-> {},
   confidenceAccum  |-> [key \in Categories |-> [sum |-> Num(0), count |-> 0]],
   categories       |-> [key \in Categories |->
                           createEmptyCategory(CATEGORY_CONFIG[key].name,
                                               CATEGORY_CONFIG[key].isPositive)]]

\* "cat && cat.detected": an entry that is absent, or has no detected flag, is
\* falsy
IsDetected(frameCats, key) ==
  /\ key \in DOMAIN frameCats
  /\ "detected" \in DOMAIN frameCats[key]
  /\ frameCats[key].detected

\* cat.confidence as an operand of +=: undefined makes the sum NaN
ConfidenceOf(cat) == IF "confidence" \in DOMAIN cat THEN cat.confidence ELSE NaN

\* faulty variant: the confidence of every frame is accumulated, detected or not
ParseFrame_EveryFrame(acc, analysis) ==
  LET timestamp == analysis.timestamp
      frameCats == analysis.categories
  IN  [framesWithGloves |->
         IF IsDetected(frameCats, "protectiveGloves")
         THEN acc.framesWithGloves \cup {timestamp}
         ELSE acc.framesWithGloves,
       confidenceAccum |->
         [key \in Categories |->
            [sum   |-> ConfidenceAdd(acc.confidenceAccum[key].sum, ConfidenceOf(frameCats[key])),
             count |-> acc.confidenceAccum[key].count + 1]],
       categories |->
         [key \in Categories |->
            IF IsDetected(frameCats, key)
            THEN [acc.categories[key] EXCEPT
                    !.detectedFrames  = IF Includes(@, timestamp) THEN @
                                        ELSE Append(@, timestamp),
                    !.totalDetections = @ + 1]
            ELSE acc.categories[key]]]

\* faulty variant: the sum is replaced by the frame's confidence, not increased
ParseFrame_LastConfidence(acc, analysis) ==
  LET timestamp == analysis.timestamp
      frameCats == analysis.categories
  IN  [framesWithGloves |->
         IF IsDetected(frameCats, "protectiveGloves")
         THEN acc.framesWithGloves \cup {timestamp}
         ELSE acc.framesWithGloves,
       confidenceAccum |->
         [key \in Categories |->
            IF IsDetected(frameCats, key)
            THEN [sum   |-> ConfidenceOf(frameCats[key]),
                  count |-> acc.confidenceAccum[key].count + 1]
            ELSE acc.confidenceAccum[key]],
       categories |->
         [key \in Categories |->
            IF IsDetected(frameCats, key)
            THEN [acc.categories[key] EXCEPT
                    !.detectedFrames  = IF Includes(@, timestamp) THEN @
                                        ELSE Append(@, timestamp),
                    !.totalDetections = @ + 1]
            ELSE acc.categories[key]]]

\* one iteration of "for (const analysis of analyses)"
ParseFrame(acc, analysis) ==
  LET timestamp == analysis.timestamp
      frameCats == analysis.categories
  IN  [framesWithGloves |->
         IF IsDetected(frameCats, "protectiveGloves")
         THEN acc.framesWithGloves \cup {timestamp}
         ELSE acc.framesWithGloves,
       confidenceAccum |->
         [key \in Categories |->
            IF IsDetected(frameCats, key)
            THEN [sum   |-> ConfidenceAdd(acc.confidenceAccum[key].sum,
                                   ConfidenceOf(frameCats[key])),
                  count |-> acc.confidenceAccum[key].count + 1]
            ELSE acc.confidenceAccum[key]],
       categories |->
         [key \in Categories |->
            IF IsDetected(frameCats, key)
            THEN [acc.categories[key] EXCEPT
                    !.detectedFrames  = IF Includes(@, timestamp) THEN @
                                        ELSE Append(@, timestamp),
                    !.totalDetections = @ + 1]
            ELSE acc.categories[key]]]

RECURSIVE ParseLoop(_, _)
ParseLoop(acc, rest) ==
  IF rest = <<>> THEN acc ELSE ParseLoop(ParseFrame(acc, Head(rest)), Tail(rest))

\* faulty variant: the exclusion filter is left out
ExcludeGloveFrames_Skipped(detectedFrames, framesWithGloves) == detectedFrames

\* glove exclusion: timestamps with gloves are dropped from bareHands
ExcludeGloveFrames(detectedFrames, framesWithGloves) ==
  Without(detectedFrames, framesWithGloves)

parseVLMResults(analysesArg, totalFramesArg) ==
  LET acc == ParseLoop(ParseStart, analysesArg)
      averaged ==
        [key \in Categories |->
           [acc.categories[key] EXCEPT
              !.averageConfidence =
                 IF acc.confidenceAccum[key].count > 0
                 THEN ConfidenceDiv(acc.confidenceAccum[key].sum,
                             Num(acc.confidenceAccum[key].count))
                 ELSE Num(0)]]
  IN  [averaged EXCEPT
         !["bareHands"].detectedFrames = ExcludeGloveFrames(@, acc.framesWithGloves)]

----------------------------------------------------------------------------
(* Label backend: mapDetections *)

\* key order of the categories object built by mapDetections
LabelCategoryKeys ==
  <<"protectiveGloves", "bareHands", "hairNet", "cleanSurface",
    "equipment", "rawFood", "crossContamination">>

LabelCategories == {LabelCategoryKeys[i] : i \in 1..Len(LabelCategoryKeys)}

LabelCategoryConfig ==
  [protectiveGloves   |-> [name |-> "Protective Gloves", isPositive |-> TRUE],
   bareHands          |-> [name |-> "Bare Hands", isPositive |-> FALSE],
   hairNet            |-> [name |-> "Hair Net", isPositive |-> TRUE],
   cleanSurface       |-> [name |-> "Clean Surface", isPositive |-> TRUE],
   equipment          |-> [name |-> "Equipment", isPositive |-> TRUE],
   rawFood            |-> [name |-> "Raw Food", isPositive |-> TRUE],
   crossContamination |-> [name |-> "Cross-Contamination Risk", isPositive |-> FALSE]]

HYGIENE_KEYWORDS ==
  [protectiveGloves   |-> {"glove", "disposable glove", "medical glove", "latex glove",
                           "nitrile glove", "rubber glove", "protective glove"},
   bareHands          |-> {"hand", "finger", "thumb", "wrist", "palm", "fist", "nail",
                           "flesh"},
   hairNet            |-> {"hair net", "hairnet", "chef hat", "chef's hat",
                           "head covering", "haircover", "cap", "beanie"},
   cleanSurface       |-> {"table", "counter", "countertop", "stainless steel",
                           "work surface", "tabletop", "desk", "bench"},
   equipment          |-> {"cutting board", "knife", "utensil", "tool", "cookware",
                           "pot", "pan", "spatula", "ladle", "bowl", "plate",
                           "container"},
   rawFood            |-> {"raw meat", "meat", "chicken", "beef", "pork", "fish",
                           "poultry", "raw", "steak", "seafood"},
   crossContamination |-> {"vegetable", "produce", "fruit", "salad", "lettuce",
                           "tomato", "carrot", "citrus", "ingredient", "food",
                           "natural foods"}]

\* label.description.toLowerCase().includes(keyword): the keywords of
\* HYGIENE_KEYWORDS that are substrings of each label of the vocabulary
KeywordsIn(description) ==
  CASE description = "Glove"        -> {"glove"}
    [] description = "Rubber glove" -> {"glove", "rubber glove"}
    [] description = "Hand"         -> {"hand"}
    [] description = "Finger"       -> {"finger"}
    [] description = "Seafood"      -> {"seafood", "food"}
    [] description = "Tabletop"     -> {"table", "tabletop"}
    [] OTHER                        -> {}

\* labels matching a category: a keyword occurs in the label and score >= 0.5
findMatchingLabels(labels, keywords) ==
  SelectSeq(labels, LAMBDA label :
     KeywordsIn(label.description) \cap keywords # {} /\ NumGe(label.score, Rat(1, 2)))

RECURSIVE SumScores(_)
\* matchingLabels.reduce((sum, label) => sum + label.score, 0)
SumScores(labels) ==
  IF labels = <<>> THEN Num(0)
  ELSE NumAdd(SumScores(SubSeq(labels, 1, Len(labels) - 1)), labels[Len(labels)].score)

\* one category's update for one frame (body of the inner forEach)
MapCategory(category, keywords, labels, frameNumber) ==
  LET matchingLabels == findMatchingLabels(labels, keywords)
      frames         == IF Includes(category.detectedFrames, frameNumber)
                        THEN category.detectedFrames
                        ELSE Append(category.detectedFrames, frameNumber)
      avgNewConfidence == NumDiv(SumScores(matchingLabels), Num(Len(matchingLabels)))
      currentCount   == Len(frames) - 1
  IN  IF Len(matchingLabels) > 0
      THEN [category EXCEPT
              !.detectedFrames    = frames,
              !.totalDetections   = @ + Len(matchingLabels),
              !.averageConfidence =
                 IF @ = Num(0) THEN avgNewConfidence
                 ELSE NumDiv(NumAdd(NumMul(@, Num(currentCount)), avgNewConfidence),
                             Num(Len(frames)))]
      ELSE category

\* one iteration of detections.forEach
MapFrame(acc, detection) ==
  [framesWithGloves |->
     IF Len(findMatchingLabels(detection.labels, HYGIENE_KEYWORDS["protectiveGloves"])) > 0
     THEN acc.framesWithGloves \cup {detection.frameNumber}
     ELSE acc.framesWithGloves,
   categories |->
     [key \in LabelCategories |->
        MapCategory(acc.categories[key], HYGIENE_KEYWORDS[key], detection.labels,
                    detection.frameNumber)]]

RECURSIVE MapLoop(_, _)
MapLoop(acc, rest) ==
  IF rest = <<>> THEN acc ELSE MapLoop(MapFrame(acc, Head(rest)), Tail(rest))

mapDetections(detectionsArg) ==
  LET start == [framesWithGloves |-> {},
                categories |-> [key \in LabelCategories |->
                                  createEmptyCategory(LabelCategoryConfig[key].name,
                                                      LabelCategoryConfig[key].isPositive)]]
      acc   == MapLoop(start, detectionsArg)
  IN  [acc.categories EXCEPT
         !["bareHands"].detectedFrames = Without(@, acc.framesWithGloves)]

----------------------------------------------------------------------------
(* Scoring engine: calculateScores *)

\* faulty variant: gloves keep their weight of the 6-category table
CATEGORY_WEIGHTS_GlovesUnadjusted ==
  [protectiveGloves   |-> Rat(30, 100),
   cleanSurface       |-> Rat(12, 100),
   hairNet            |-> Rat(10, 100),
   properApron        |-> Rat(10, 100),
   handwashStation    |-> Rat(16, 100),
   bareHands          |-> Rat(20, 100),
   pestSigns          |-> Rat(15, 100),
   crossContamination |-> Rat(5, 100)]

CATEGORY_WEIGHTS ==
  [protectiveGloves   |-> Rat(12, 100),
   cleanSurface       |-> Rat(12, 100),
   hairNet            |-> Rat(10, 100),
   properApron        |-> Rat(10, 100),
   handwashStation    |-> Rat(16, 100),
   bareHands          |-> Rat(20, 100),
   pestSigns          |-> Rat(15, 100),
   crossContamination |-> Rat(5, 100)]

\* faulty variant: counts totalDetections instead of the filtered detectedFrames
calculateFrequency_TotalDetections(category, totalFramesArg) ==
  NumMul(NumDiv(Num(category.totalDetections), Num(totalFramesArg)), Num(100))

\* (category.detectedFrames.length / totalFrames) * 100
calculateFrequency(category, totalFramesArg) ==
  NumMul(NumDiv(Num(Len(category.detectedFrames)), Num(totalFramesArg)), Num(100))

\* detectedFrames[0] || fallback
FirstFrameOr(category, fallback) ==
  IF category.detectedFrames = <<>> \/ category.detectedFrames[1] = 0
  THEN fallback
  ELSE category.detectedFrames[1]

\* averageConfidence || fallback
ConfidenceOr(category, fallback) ==
  IF Falsy(category.averageConfidence) THEN fallback ELSE category.averageConfidence

HygieneScore(category, score, weight, detectionRate, confidence) ==
  [category |-> category, score |-> score, weight |-> weight,
   detectionRate |-> detectionRate, confidence |-> confidence]

Finding(category, severity, description, timestamp, frameNumber, confidence) ==
  [category |-> category, severity |-> severity, description |-> description,
   timestamp |-> timestamp, frameNumber |-> frameNumber, confidence |-> confidence]

\* Math.min(100, (glovesFrequency / 80) * 100)
glovesScore(glovesFrequency) ==
  MathMin(Num(100), NumMul(NumDiv(glovesFrequency, Num(80)), Num(100)))

glovesFinding(category, glovesFrequency) ==
  IF NumLt(glovesFrequency, Num(60))
  THEN <<Finding("Protective Gloves", "critical",
                 "Protective gloves not consistently worn during food preparation",
                 FirstFrameOr(category, 0), FirstFrameOr(category, 1),
                 ConfidenceOr(category, Rat(85, 100)))>>
  ELSE <<>>

\* Math.min(100, (surfaceFrequency / 60) * 100)
surfaceScore(surfaceFrequency) ==
  MathMin(Num(100), NumMul(NumDiv(surfaceFrequency, Num(60)), Num(100)))

surfaceFinding(category, surfaceFrequency) ==
  IF NumLt(surfaceFrequency, Num(40))
  THEN <<Finding("Clean Surfaces", "major",
                 "Work surfaces not consistently clean - visible debris, grease, or stains",
                 FirstFrameOr(category, 0), FirstFrameOr(category, 1),
                 ConfidenceOr(category, Rat(7, 10)))>>
  ELSE <<>>

\* faulty variant: hair covering scored with the violation curve
hairNetScore_Inverted(hairNetFrequency) ==
  MathMax(Num(10), NumSub(Num(100), NumMul(NumDiv(hairNetFrequency, Num(70)), Num(100))))

\* Math.min(100, (hairNetFrequency / 70) * 100)
hairNetScore(hairNetFrequency) ==
  MathMin(Num(100), NumMul(NumDiv(hairNetFrequency, Num(70)), Num(100)))

hairNetFinding(category, hairNetFrequency) ==
  IF NumLt(hairNetFrequency, Num(50))
  THEN <<Finding("Hair Covering", "major",
                 "Hair covering not detected or worn improperly",
                 FirstFrameOr(category, 0), FirstFrameOr(category, 1),
                 ConfidenceOr(category, Rat(75, 100)))>>
  ELSE <<>>

\* Math.min(100, (apronFrequency / 70) * 100)
apronScore(apronFrequency) ==
  MathMin(Num(100), NumMul(NumDiv(apronFrequency, Num(70)), Num(100)))

apronFinding(category, apronFrequency) ==
  IF NumLt(apronFrequency, Num(50))
  THEN <<Finding("Proper Apron", "major",
                 "Clean apron or chef coat not worn during food preparation",
                 FirstFrameOr(category, 0), FirstFrameOr(category, 1),
                 ConfidenceOr(category, Rat(7, 10)))>>
  ELSE <<>>

\* faulty variant: an unseen handwash station is given full credit
handwashScore_FullWhenUnseen(handwashFrequency) ==
  IF handwashFrequency = Num(0) THEN Num(100)
  ELSE MathMin(Num(100), NumMul(NumDiv(handwashFrequency, Num(30)), Num(100)))

\* Math.min(100, (handwashFrequency / 30) * 100)
handwashScore(handwashFrequency) ==
  MathMin(Num(100), NumMul(NumDiv(handwashFrequency, Num(30)), Num(100)))

handwashFinding(category, handwashFrequency) ==
  IF NumLt(handwashFrequency, Num(10))
  THEN <<Finding("Handwash Station", "critical",
                 "No handwashing station with soap and paper towels visible in the preparation area",
                 FirstFrameOr(category, 0), FirstFrameOr(category, 1),
                 ConfidenceOr(category, Rat(8, 10)))>>
  ELSE <<>>

\* Math.max(10, 100 - (bareHandsFrequency / 30) * 100)
bareHandsScore(bareHandsFrequency) ==
  MathMax(Num(10), NumSub(Num(100), NumMul(NumDiv(bareHandsFrequency, Num(30)), Num(100))))

bareHandsFinding(category, bareHandsFrequency) ==
  IF NumGt(bareHandsFrequency, Num(20))
  THEN <<Finding("Bare Hands", "critical",
                 "Bare hands detected in contact with food or food-contact surfaces",
                 FirstFrameOr(category, 0), FirstFrameOr(category, 1),
                 category.averageConfidence)>>
  ELSE <<>>

\* Math.max(0, 100 - (pestFrequency / 10) * 100)
pestScore(pestFrequency) ==
  MathMax(Num(0), NumSub(Num(100), NumMul(NumDiv(pestFrequency, Num(10)), Num(100))))

\* faulty variant: the pest finding waits for the rate to exceed 10
pestFinding_Above10(category, pestFrequency) ==
  IF NumGt(pestFrequency, Num(10))
  THEN <<Finding("Pest Control", "critical",
                 "Signs of pest activity detected - droppings, insects, or infestation evidence",
                 FirstFrameOr(category, 0), FirstFrameOr(category, 1),
                 category.averageConfidence)>>
  ELSE <<>>

pestFinding(category, pestFrequency) ==
  IF NumGt(pestFrequency, Num(0))
  THEN <<Finding("Pest Control", "critical",
                 "Signs of pest activity detected - droppings, insects, or infestation evidence",
                 FirstFrameOr(category, 0), FirstFrameOr(category, 1),
                 category.averageConfidence)>>
  ELSE <<>>

\* faulty variant: cross contamination loses its floor of 10
crossContamScore_NoFloor(crossContamFrequency) ==
  MathMax(Num(0), NumSub(Num(100), NumMul(NumDiv(crossContamFrequency, Num(20)), Num(100))))

\* Math.max(10, 100 - (crossContamFrequency / 20) * 100)
crossContamScore(crossContamFrequency) ==
  MathMax(Num(10), NumSub(Num(100), NumMul(NumDiv(crossContamFrequency, Num(20)), Num(100))))

crossContamFinding(category, crossContamFrequency) ==
  IF NumGt(crossContamFrequency, Num(10))
  THEN <<Finding("Cross Contamination", "critical",
                 "Raw meat/poultry/fish in direct contact with ready-to-eat foods",
                 FirstFrameOr(category, 0), FirstFrameOr(category, 1),
                 category.averageConfidence)>>
  ELSE <<>>

RECURSIVE WeightedSum(_)
\* individualScores.reduce((sum, score) => sum + score.score * score.weight, 0)
WeightedSum(scores) ==
  IF scores = <<>> THEN Num(0)
  ELSE NumAdd(WeightedSum(SubSeq(scores, 1, Len(scores) - 1)),
              NumMul(scores[Len(scores)].score, scores[Len(scores)].weight))

\* category.toLowerCase()
ToLowerCase(category) ==
  CASE category = "Protective Gloves"   -> "protective gloves"
    [] category = "Clean Surfaces"      -> "clean surfaces"
    [] category = "Hair Covering"       -> "hair covering"
    [] category = "Proper Apron"        -> "proper apron"
    [] category = "Handwash Station"    -> "handwash station"
    [] category = "Bare Hands"          -> "bare hands"
    [] category = "Pest Control"        -> "pest control"
    [] category = "Cross Contamination" -> "cross contamination"

LowerNames(items) == [i \in 1..Len(items) |-> ToLowerCase(items[i].category)]

\* the sentence template chosen and the category names spliced into it
generateSummary(score, findings, scores) ==
  LET criticalFindings == SelectSeq(findings, LAMBDA f : f.severity = "critical")
      lowScores  == SelectSeq(scores, LAMBDA sc : NumLt(sc.score, Num(70)))
      highScores == SelectSeq(scores, LAMBDA sc : NumGe(sc.score, Num(85)))
  IN  IF NumGe(score, Num(90))
      THEN (IF Len(highScores) > 0
            THEN [bucket |-> "excellent", template |-> "Outstanding work!",
                  names |-> Slice(LowerNames(highScores), 2)]
            ELSE [bucket |-> "excellent", template |-> "Excellent hygiene practices",
                  names |-> <<>>])
      ELSE IF NumGe(score, Num(80))
      THEN (IF Len(lowScores) > 0
            THEN [bucket |-> "good", template |-> "Good overall performance!",
                  names |-> Slice(LowerNames(lowScores), 2)]
            ELSE [bucket |-> "good", template |-> "Solid hygiene practices",
                  names |-> <<>>])
      ELSE IF NumGe(score, Num(70))
      THEN (IF Len(criticalFindings) > 0
            THEN [bucket |-> "acceptable", template |-> "need immediate attention",
                  names |-> Slice(LowerNames(criticalFindings), 2)]
            ELSE [bucket |-> "acceptable", template |-> "Acceptable baseline hygiene",
                  names |-> <<>>])
      ELSE IF NumGe(score, Num(60))
      THEN [bucket |-> "below-standard", template |-> "practices are below standard",
            names |-> Slice(LowerNames(lowScores), 3)]
      ELSE [bucket |-> "critical", template |-> "Critical hygiene violations detected",
            names |-> <<>>]

\* faulty variant: the weighted sum is truncated instead of rounded
RoundedOverall_Truncated(overallScore) ==
  IF ~IsFinite(overallScore) THEN overallScore
  ELSE Num(overallScore.num \div overallScore.den)

\* Math.round of the weighted sum, as returned in overallScore
RoundedOverall(overallScore) == MathRound(overallScore)

calculateScores(detectionsArg, totalFramesArg) ==
  LET glovesFrequency      == calculateFrequency(detectionsArg["protectiveGloves"], totalFramesArg)
      surfaceFrequency     == calculateFrequency(detectionsArg["cleanSurface"], totalFramesArg)
      hairNetFrequency     == calculateFrequency(detectionsArg["hairNet"], totalFramesArg)
      apronFrequency       == calculateFrequency(detectionsArg["properApron"], totalFramesArg)
      handwashFrequency    == calculateFrequency(detectionsArg["handwashStation"], totalFramesArg)
      bareHandsFrequency   == calculateFrequency(detectionsArg["bareHands"], totalFramesArg)
      pestFrequency        == calculateFrequency(detectionsArg["pestSigns"], totalFramesArg)
      crossContamFrequency == calculateFrequency(detectionsArg["crossContamination"], totalFramesArg)
      individualScores ==
        << HygieneScore("Protective Gloves", glovesScore(glovesFrequency),
                        CATEGORY_WEIGHTS["protectiveGloves"], glovesFrequency,
                        detectionsArg["protectiveGloves"].averageConfidence),
           HygieneScore("Clean Surfaces", surfaceScore(surfaceFrequency),
                        CATEGORY_WEIGHTS["cleanSurface"], surfaceFrequency,
                        detectionsArg["cleanSurface"].averageConfidence),
           HygieneScore("Hair Covering", hairNetScore(hairNetFrequency),
                        CATEGORY_WEIGHTS["hairNet"], hairNetFrequency,
                        detectionsArg["hairNet"].averageConfidence),
           HygieneScore("Proper Apron", apronScore(apronFrequency),
                        CATEGORY_WEIGHTS["properApron"], apronFrequency,
                        detectionsArg["properApron"].averageConfidence),
           HygieneScore("Handwash Station", handwashScore(handwashFrequency),
                        CATEGORY_WEIGHTS["handwashStation"], handwashFrequency,
                        detectionsArg["handwashStation"].averageConfidence),
           HygieneScore("Bare Hands", bareHandsScore(bareHandsFrequency),
                        CATEGORY_WEIGHTS["bareHands"], bareHandsFrequency,
                        detectionsArg["bareHands"].averageConfidence),
           HygieneScore("Pest Control", pestScore(pestFrequency),
                        CATEGORY_WEIGHTS["pestSigns"], pestFrequency,
                        detectionsArg["pestSigns"].averageConfidence),
           HygieneScore("Cross Contamination", crossContamScore(crossContamFrequency),
                        CATEGORY_WEIGHTS["crossContamination"], crossContamFrequency,
                        detectionsArg["crossContamination"].averageConfidence) >>
      findings ==
        glovesFinding(detectionsArg["protectiveGloves"], glovesFrequency)
        \o surfaceFinding(detectionsArg["cleanSurface"], surfaceFrequency)
        \o hairNetFinding(detectionsArg["hairNet"], hairNetFrequency)
        \o apronFinding(detectionsArg["properApron"], apronFrequency)
        \o handwashFinding(detectionsArg["handwashStation"], handwashFrequency)
        \o bareHandsFinding(detectionsArg["bareHands"], bareHandsFrequency)
        \o pestFinding(detectionsArg["pestSigns"], pestFrequency)
        \o crossContamFinding(detectionsArg["crossContamination"], crossContamFrequency)
      overallScore == WeightedSum(individualScores)
  IN  [overallScore     |-> RoundedOverall(overallScore),
       individualScores |-> individualScores,
       findings         |-> findings,
       summary          |-> generateSummary(overallScore, findings, individualScores)]

\* keys of SUGGESTION_MAP
SuggestionKeys ==
  {"Protective Gloves", "Bare Hands", "Hair Covering", "Clean Surfaces",
   "Proper Apron", "Handwash Station", "Pest Control", "Cross Contamination"}

\* SUGGESTION_MAP[category] (the dash of two texts is written "-")
SUGGESTION_MAP(category) ==
  CASE category = "Protective Gloves"   ->
         "Wear food-safe gloves consistently while handling food"
    [] category = "Bare Hands"          ->
         "Use gloves or utensils - avoid bare-hand contact with food"
    [] category = "Hair Covering"       ->
         "Wear a hair net or hat that fully restrains hair"
    [] category = "Clean Surfaces"      ->
         "Clean and sanitize work surfaces between tasks"
    [] category = "Proper Apron"        ->
         "Wear a clean apron or chef coat during prep"
    [] category = "Handwash Station"    ->
         "Keep a handwash sink with soap and towels accessible"
    [] category = "Pest Control"        ->
         "Address pest signs immediately - clean and seal entry points"
    [] category = "Cross Contamination" ->
         "Separate raw meat from ready-to-eat foods"

POSITIVE_REINFORCEMENT == "Great job - keep maintaining these food safety standards"

\* faulty variant: a repeated finding category is suggested again
SuggestFinding_Repeated(acc, finding) ==
  IF finding.category \in SuggestionKeys
  THEN [categories  |-> acc.categories \cup {finding.category},
        suggestions |-> Append(acc.suggestions, SUGGESTION_MAP(finding.category))]
  ELSE acc

\* body of findings.forEach
SuggestFinding(acc, finding) ==
  IF finding.category \notin acc.categories /\ finding.category \in SuggestionKeys
  THEN [categories  |-> acc.categories \cup {finding.category},
        suggestions |-> Append(acc.suggestions, SUGGESTION_MAP(finding.category))]
  ELSE acc

\* body of scores.forEach
SuggestScore(acc, score) ==
  IF /\ NumLt(score.score, Num(70))
     /\ score.category \notin acc.categories
     /\ score.category \in SuggestionKeys
  THEN [categories  |-> acc.categories \cup {score.category},
        suggestions |-> Append(acc.suggestions, SUGGESTION_MAP(score.category))]
  ELSE acc

RECURSIVE SuggestFindings(_, _)
\* findings.forEach on the accumulator (suggestions, categories)
SuggestFindings(acc, findings) ==
  IF findings = <<>> THEN acc
  ELSE SuggestFindings(SuggestFinding(acc, Head(findings)), Tail(findings))

RECURSIVE SuggestScores(_, _)
\* scores.forEach on the accumulator
SuggestScores(acc, scores) ==
  IF scores = <<>> THEN acc
  ELSE SuggestScores(SuggestScore(acc, Head(scores)), Tail(scores))

generateSuggestions(findings, scores) ==
  LET start   == [categories |-> {}, suggestions |-> <<>>]
      fromFindings == SuggestFindings(start, findings)
      fromScores   == SuggestScores(fromFindings, scores)
  IN  IF Len(fromScores.suggestions) = 0
      THEN <<POSITIVE_REINFORCEMENT>>
      ELSE fromScores.suggestions

----------------------------------------------------------------------------
(* Inputs *)

\* seconds between two frames kept by the sub-sampling of analyzeVideo
SUBSAMPLE_STRIDE == 3

\* categories one frame reports as detected
DetectedSets ==
  {{}} \cup {{key} : key \in Categories}
       \cup {{"protectiveGloves", "bareHands"}} \cup {Categories}

\* confidence reported by the i-th frame of an input
FrameConfidence(i) == IF i % 2 = 1 THEN Rat(9, 10) ELSE Rat(6, 10)

FrameCategories(detectedSet, confidence) ==
  [key \in Categories |-> [detected |-> key \in detectedSet, confidence |-> confidence]]

\* the response of /api/vision/analyze echoes frameNumber and timestamp;
\* extractFrames numbers the frame taken at second t as t + 1
FrameAnalysis(timestamp, categories) ==
  [frameNumber |-> timestamp + 1, timestamp |-> timestamp, categories |-> categories]

\* timestamps of k analyses: in video order, in reverse order, with a timestamp
\* twice, and in video order after a failed (omitted) first frame
TimestampLists(k) ==
  { [i \in 1..k |-> SUBSAMPLE_STRIDE * (i - 1)],
    [i \in 1..k |-> SUBSAMPLE_STRIDE * (k - i)],
    [i \in 1..k |-> SUBSAMPLE_STRIDE * ((i - 1) \div 2)],
    [i \in 1..k |-> SUBSAMPLE_STRIDE * i] }

\* t frames in video order: category a in the first g, bare hands from frame s on
ProfileAnalyses(t, a, g, s) ==
  [i \in 1..t |->
     FrameAnalysis(SUBSAMPLE_STRIDE * (i - 1),
                   FrameCategories((IF i <= g THEN {a} ELSE {})
                                   \cup (IF i >= s THEN {"bareHands"} ELSE {}),
                                   FrameConfidence(i)))]

Label(description, scoreTenths) == [description |-> description, score |-> Rat(scoreTenths, 10)]

\* label lists one frame of the label backend answers with
LabelLists ==
  { <<>>,
    <<Label("Glove", 9)>>,
    <<Label("Hand", 9)>>,
    <<Label("Glove", 9), Label("Hand", 8)>>,
    <<Label("Glove", 4), Label("Hand", 9)>>,
    <<Label("Rubber glove", 7), Label("Glove", 9)>>,
    <<Label("Seafood", 6)>>,
    <<Label("Hand", 9), Label("Finger", 6), Label("Tabletop", 5)>>,
    <<Label("Orange", 9)>> }

\* frame numbers of k label results: 1..k, or all for frame 1
FrameNumberLists(k) == { [i \in 1..k |-> i], [i \in 1..k |-> 1] }

----------------------------------------------------------------------------
(* State machine *)

NoValue == <<>>

\* a call of parseVLMResults + calculateScores on up to MaxFrames frame analyses;
\* totalFrames is 0, the number of analyses, or one more (a failed frame)
InitVLM ==
  /\ pc = "vlm"
  /\ \E k \in 0..MaxFrames : \E ts \in TimestampLists(k) :
        \E ds \in [1..k -> DetectedSets] :
           /\ analyses = [i \in 1..k |->
                            FrameAnalysis(ts[i], FrameCategories(ds[i], FrameConfidence(i)))]
           /\ totalFrames \in {0, k, k + 1}
  /\ labelResults = <<>>

\* the same call on a two-category profile of up to MaxProfileFrames frames
InitProfile ==
  /\ pc = "vlm"
  /\ \E t \in 1..MaxProfileFrames : \E a \in Categories :
        \E g \in 0..t : \E s \in 1..(t + 1) :
           /\ analyses = ProfileAnalyses(t, a, g, s)
           /\ totalFrames = t
  /\ labelResults = <<>>

\* the same call on one frame that reports any set of categories
InitOneFrame ==
  /\ pc = "vlm"
  /\ \E detected \in SUBSET Categories :
        analyses = <<FrameAnalysis(0, FrameCategories(detected, FrameConfidence(1)))>>
  /\ totalFrames = 1
  /\ labelResults = <<>>

\* a call of mapDetections on the label results of up to MaxFrames frames
InitLabels ==
  /\ pc = "labels"
  /\ \E k \in 0..MaxFrames : \E fn \in FrameNumberLists(k) :
        \E ls \in [1..k -> LabelLists] :
           /\ labelResults = [i \in 1..k |-> [labels |-> ls[i], frameNumber |-> fn[i],
                                              timestamp |-> fn[i] - 1]]
           /\ totalFrames = k
  /\ analyses = <<>>

\* no run of analyzeVideo has started, nothing of a report exists
ClientIdle ==
  /\ video = NoValue
  /\ actualDuration = NoValue
  /\ extracted = 0
  /\ subsampledFrames = <<>>
  /\ calls = <<>>
  /\ exchanges = <<>>
  /\ settled = <<>>
  /\ notifications = <<>>
  /\ outcome = NoValue
  /\ analysisResult = NoValue

RunIdle == improvements = NoValue /\ ClientIdle

\* no call of the aggregator on its own
AggregatorIdle == callInputs = <<>> /\ callResults = <<>>

\* useState("idle"), useState(null), useRef(null): the page as first rendered
PageIdle ==
  /\ analysisStatus = "idle"
  /\ analysisResults = <<>>
  /\ pageError = <<>>
  /\ startedAs = <<>>
  /\ user = <<>>
  /\ pendingResultsRef = <<>>
  /\ saves = <<>>
  /\ analysesStarted = 0

BatchIdle ==
  /\ batchFrames = <<>>
  /\ batchStart = 0
  /\ labelCalls = <<>>
  /\ processedCount = 0
  /\ batchDetections = <<>>
  /\ batchErrors = <<>>
  /\ progressCalls = <<>>
  /\ batchReturn = <<>>

VendorIdle == vendors = <<>> /\ rowLocks = <<>> /\ claimCalls = <<>>

OffPageIdle == AggregatorIdle /\ BatchIdle /\ VendorIdle

RestIdle == OffPageIdle /\ PageIdle

Init ==
  /\ InitVLM \/ InitProfile \/ InitOneFrame \/ InitLabels
  /\ detections = NoValue
  /\ result = NoValue
  /\ RunIdle
  /\ RestIdle

ParseVLMResults ==
  /\ pc = "vlm"
  /\ detections' = parseVLMResults(analyses, totalFrames)
  /\ pc' = "parsed"
  /\ UNCHANGED <<analyses, labelResults, totalFrames, result, runVars>>
  /\ UNCHANGED restVars

MapDetections ==
  /\ pc = "labels"
  /\ detections' = mapDetections(labelResults)
  /\ pc' = "mapped"
  /\ UNCHANGED <<analyses, labelResults, totalFrames, result, runVars>>
  /\ UNCHANGED restVars

CalculateScores ==
  /\ pc = "parsed"
  /\ result' = calculateScores(detections, totalFrames)
  /\ pc' = "scored"
  /\ UNCHANGED <<analyses, labelResults, totalFrames, detections, runVars>>
  /\ UNCHANGED restVars

Next == ParseVLMResults \/ MapDetections \/ CalculateScores

Spec == Init /\ [][Next]_vars

----------------------------------------------------------------------------
(* Vocabulary of the properties *)

\* the name under which calculateScores reports each category
ReportedName ==
  [protectiveGloves   |-> "Protective Gloves",
   cleanSurface       |-> "Clean Surfaces",
   hairNet            |-> "Hair Covering",
   properApron        |-> "Proper Apron",
   handwashStation    |-> "Handwash Station",
   bareHands          |-> "Bare Hands",
   pestSigns          |-> "Pest Control",
   crossContamination |-> "Cross Contamination"]

Scored == pc = "scored"

\* the entries of individualScores reported for a category
ScoresOf(res, key) ==
  SelectSeq(res.individualScores, LAMBDA sc : sc.category = ReportedName[key])

ScoreOf(res, key) == ScoresOf(res, key)[1].score

RateOf(res, key) == ScoresOf(res, key)[1].detectionRate

FindingsOf(res, key) ==
  SelectSeq(res.findings, LAMBDA f : f.category = ReportedName[key])

IsPercent(x) == IsFinite(x) /\ NumGe(x, Num(0)) /\ NumGe(Num(100), x)

IsInteger(x) == IsFinite(x) /\ x.den = 1

RECURSIVE SumOfProducts(_, _)
\* sum of score * weight over the first n entries
SumOfProducts(scores, n) ==
  IF n = 0 THEN Num(0)
  ELSE NumAdd(SumOfProducts(scores, n - 1), NumMul(scores[n].score, scores[n].weight))

RECURSIVE SumOfWeights(_, _)
SumOfWeights(scores, n) ==
  IF n = 0 THEN Num(0) ELSE NumAdd(SumOfWeights(scores, n - 1), scores[n].weight)

\* timestamps of the input frames that report a category as detected
ReportedAt(key) ==
  {analyses[i].timestamp : i \in {j \in 1..Len(analyses) : analyses[j].categories[key].detected}}

\* frame numbers of the label results with a label matching a category
MatchedAt(key) ==
  {labelResults[i].frameNumber :
     i \in {j \in 1..Len(labelResults) :
              findMatchingLabels(labelResults[j].labels, HYGIENE_KEYWORDS[key]) # <<>>}}

ElementsOf(seq) == {seq[i] : i \in 1..Len(seq)}

Minimum(set) == CHOOSE x \in set : \A y \in set : x <= y

----------------------------------------------------------------------------
(* C1 *)

\* C1: for totalFrames >= 1 the returned overallScore is an integer in
\* [0,100] and equals round(sum over the 8 categories of score * weight).
C1_OverallScore ==
  (Scored /\ totalFrames >= 1) =>
     /\ Len(result.individualScores) = 8
     /\ IsInteger(result.overallScore)
     /\ result.overallScore.num \in 0..100
     /\ LET sum == SumOfProducts(result.individualScores, 8)
        IN  /\ IsFinite(sum)
            /\ 2 * result.overallScore.num * sum.den <= 2 * sum.num + sum.den
            /\ 2 * sum.num + sum.den < 2 * (result.overallScore.num + 1) * sum.den

\* a scored run whose weighted sum is not an integer, so rounding acts
C1_Witness ==
  /\ Scored /\ totalFrames >= 1
  /\ ~IsInteger(SumOfProducts(result.individualScores, 8))
  /\ result.overallScore.num \notin {0, 40, 100}

----------------------------------------------------------------------------
(* C2 *)

\* C2: the weights used by calculateScores sum to exactly 1, and each of the
\* 8 categories appears exactly once in individualScores with its weight.
C2_Weights ==
  Scored =>
     /\ Len(result.individualScores) = 8
     /\ SumOfWeights(result.individualScores, 8) = Num(1)
     /\ \A key \in Categories :
           /\ Len(ScoresOf(result, key)) = 1
           /\ ScoresOf(result, key)[1].weight = CATEGORY_WEIGHTS[key]

\* calculateScores has returned its eight entries
C2_Witness ==
  /\ Scored
  /\ \E i \in 1..Len(result.individualScores) :
        result.individualScores[i].weight = Rat(16, 100)

----------------------------------------------------------------------------
(* C3 *)

\* C3: after aggregation no frame that reports gloves has its timestamp
\* (frame number for the label backend) in bareHands.detectedFrames, even if
\* it also reports bare hands; no other category's detectedFrames is filtered.
C3_ExclusionLaw ==
  /\ pc \in {"parsed", "scored"} =>
        /\ \A i \in 1..Len(analyses) :
              analyses[i].categories["protectiveGloves"].detected =>
                 ~Includes(detections["bareHands"].detectedFrames, analyses[i].timestamp)
        /\ \A key \in Categories \ {"bareHands"} :
              ElementsOf(detections[key].detectedFrames) = ReportedAt(key)
  /\ pc = "mapped" =>
        /\ \A i \in 1..Len(labelResults) :
              findMatchingLabels(labelResults[i].labels,
                                 HYGIENE_KEYWORDS["protectiveGloves"]) # <<>> =>
                 ~Includes(detections["bareHands"].detectedFrames,
                           labelResults[i].frameNumber)
        /\ \A key \in LabelCategories \ {"bareHands"} :
              ElementsOf(detections[key].detectedFrames) = MatchedAt(key)

\* an aggregate of frames one of which reports gloves and bare hands at once
\* while another reports bare hands only
C3_Witness ==
  /\ pc = "parsed"
  /\ \E i \in 1..Len(analyses) :
        /\ analyses[i].categories["protectiveGloves"].detected
        /\ analyses[i].categories["bareHands"].detected
  /\ detections["bareHands"].detectedFrames # <<>>
  /\ detections["bareHands"].totalDetections = 2

----------------------------------------------------------------------------
(* C4 *)

AllEmpty == \A key \in Categories : detections[key].detectedFrames = <<>>

\* C4: with totalFrames >= 1 a positive category without detections scores 0
\* and a violation category without detections scores 100; when no category
\* has any detection the overall score is 40.
C4_ZeroDetection ==
  (Scored /\ totalFrames >= 1) =>
     /\ \A key \in Categories :
           detections[key].detectedFrames = <<>> =>
              ScoreOf(result, key) =
                 (IF CATEGORY_CONFIG[key].isPositive THEN Num(0) ELSE Num(100))
     /\ AllEmpty => result.overallScore = Num(40)

\* a scored run of two analysed frames in which nothing was detected
C4_Witness ==
  /\ Scored /\ totalFrames >= 1 /\ Len(analyses) = 2
  /\ AllEmpty
  /\ result.overallScore = Num(40)

----------------------------------------------------------------------------
(* C5 *)

\* C5: with totalFrames = 0 calculateScores yields detectionRate 0 for every
\* category and a well-formed integer overallScore in [0,100].
C5_ZeroFrames ==
  (Scored /\ totalFrames = 0) =>
     /\ \A key \in Categories : RateOf(result, key) = Num(0)
     /\ IsInteger(result.overallScore)
     /\ result.overallScore.num \in 0..100

----------------------------------------------------------------------------
(* C6 *)

\* what a run of analyzeVideo guarantees: at least one frame, no more analyses
\* than frames
PipelineShaped == totalFrames >= 1 /\ Len(analyses) <= totalFrames

\* timestamps that count for a category after the glove exclusion
Effective(key) ==
  IF key = "bareHands" THEN ReportedAt(key) \ ReportedAt("protectiveGloves")
  ELSE ReportedAt(key)

\* C6: in every run of the pipeline each category's detectionRate is
\* |exclusion-filtered timestamps| / totalFrames * 100 and lies in [0,100];
\* bare hands count only where gloves were not detected.
C6_DetectionRate ==
  (Scored /\ PipelineShaped) =>
     \A key \in Categories :
        /\ RateOf(result, key) = Rat(100 * Cardinality(Effective(key)), totalFrames)
        /\ IsPercent(RateOf(result, key))

\* 10 frames, gloves in 9, bare hands in 3 of which 2 overlap gloves: rate 10
C6_Witness ==
  /\ Scored /\ totalFrames = 10 /\ Len(analyses) = 10
  /\ Cardinality(ReportedAt("protectiveGloves")) = 9
  /\ Cardinality(ReportedAt("bareHands")) = 3
  /\ Cardinality(ReportedAt("bareHands") \cap ReportedAt("protectiveGloves")) = 2
  /\ RateOf(result, "bareHands") = Num(10)

----------------------------------------------------------------------------
(* C7 *)

Violations == {key \in Categories : ~CATEGORY_CONFIG[key].isPositive}

\* C7 as stated: every score is in [0,100] and no violation category ever
\* scores exactly 0.
C7_NoViolationScoresZero ==
  (Scored /\ totalFrames >= 1) =>
     /\ \A key \in Categories : IsPercent(ScoreOf(result, key))
     /\ \A key \in Violations : ScoreOf(result, key) # Num(0)

\* full-credit (positive) or zero-credit (violation) rate of each category
FullRate ==
  [protectiveGloves |-> 80, cleanSurface |-> 60, hairNet |-> 70, properApron |-> 70,
   handwashStation |-> 30, bareHands |-> 30, pestSigns |-> 10, crossContamination |-> 20]

\* floor of each violation category
Floor == [bareHands |-> 10, pestSigns |-> 0, crossContamination |-> 10]

\* C7 amended: every score is in [0,100]; a positive category scores
\* min(100, rate/T*100) and a violation category max(F, 100 - rate/T*100) with
\* F = 10 for bare hands and cross contamination and F = 0 for pest signs: bare
\* hands and cross contamination never score below 10, pest signs scores
\* exactly 0 as soon as its rate reaches 10.
C7_ScoreCurves ==
  (Scored /\ totalFrames >= 1) =>
     /\ \A key \in Categories :
           LET rate  == RateOf(result, key)
               curve == Rat(rate.num * 100, rate.den * FullRate[key])
               score == ScoreOf(result, key)
           IN  /\ IsPercent(score)
               /\ CATEGORY_CONFIG[key].isPositive =>
                     score = (IF NumLt(curve, Num(100)) THEN curve ELSE Num(100))
               /\ ~CATEGORY_CONFIG[key].isPositive =>
                     score = (IF NumLt(NumSub(Num(100), curve), Num(Floor[key]))
                              THEN Num(Floor[key]) ELSE NumSub(Num(100), curve))
     /\ NumGe(ScoreOf(result, "bareHands"), Num(10))
     /\ NumGe(ScoreOf(result, "crossContamination"), Num(10))
     /\ ScoreOf(result, "pestSigns") = Num(0) <=> NumGe(RateOf(result, "pestSigns"), Num(10))

\* a scored run where bare hands and cross contamination sit on their floor
\* of 10 and pest signs on its floor of 0
C7_Witness ==
  /\ Scored /\ totalFrames >= 1
  /\ NumGe(RateOf(result, "bareHands"), Num(30))
  /\ ScoreOf(result, "bareHands") = Num(10)
  /\ ScoreOf(result, "crossContamination") = Num(10)
  /\ ScoreOf(result, "pestSigns") = Num(0)

----------------------------------------------------------------------------
(* C8 *)

\* a timestamp later than every timestamp of the input
LaterTimestamp == SUBSAMPLE_STRIDE * (Len(analyses) + 1)

\* the aggregate with one more timestamp in one category's detectedFrames
WithOneMore(key) ==
  [detections EXCEPT ![key].detectedFrames = Append(@, LaterTimestamp)]

\* C8: for fixed totalFrames >= 1 and all other categories unchanged, one more
\* timestamp in a positive category never decreases that category's score nor
\* the overall score; one more in a violation category never increases them.
C8_PolarityMonotone ==
  (Scored /\ totalFrames >= 1) =>
     \A key \in Categories :
        LET more == calculateScores(WithOneMore(key), totalFrames)
        IN  IF CATEGORY_CONFIG[key].isPositive
            THEN /\ NumGe(ScoreOf(more, key), ScoreOf(result, key))
                 /\ NumGe(more.overallScore, result.overallScore)
            ELSE /\ NumGe(ScoreOf(result, key), ScoreOf(more, key))
                 /\ NumGe(result.overallScore, more.overallScore)

\* a scored run where one more glove timestamp raises the overall score and
\* one more pest timestamp lowers it
C8_Witness ==
  /\ Scored /\ totalFrames >= 1
  /\ NumGt(calculateScores(WithOneMore("protectiveGloves"), totalFrames).overallScore,
           result.overallScore)
  /\ NumLt(calculateScores(WithOneMore("pestSigns"), totalFrames).overallScore,
           result.overallScore)

----------------------------------------------------------------------------
(* C9 *)

\* the rate at which each category's finding is due
Triggered(key, rate) ==
  CASE key = "protectiveGloves"   -> NumLt(rate, Num(60))
    [] key = "cleanSurface"       -> NumLt(rate, Num(40))
    [] key = "hairNet"            -> NumLt(rate, Num(50))
    [] key = "properApron"        -> NumLt(rate, Num(50))
    [] key = "handwashStation"    -> NumLt(rate, Num(10))
    [] key = "bareHands"          -> NumGt(rate, Num(20))
    [] key = "pestSigns"          -> NumGt(rate, Num(0))
    [] key = "crossContamination" -> NumGt(rate, Num(10))

Severity ==
  [protectiveGloves |-> "critical", cleanSurface |-> "major", hairNet |-> "major",
   properApron |-> "major", handwashStation |-> "critical", bareHands |-> "critical",
   pestSigns |-> "critical", crossContamination |-> "critical"]

\* C9: calculateScores emits at most one finding per category, exactly when the
\* category's rate crosses its trigger (gloves < 60, clean surfaces < 40, hair
\* covering < 50, apron < 50, handwash station < 10, bare hands > 20, pest
\* signs > 0, cross contamination > 10), with the category's fixed severity.
C9_FindingTriggers ==
  (Scored /\ totalFrames >= 1) =>
     /\ \A key \in Categories :
           /\ Len(FindingsOf(result, key)) =
                 (IF Triggered(key, RateOf(result, key)) THEN 1 ELSE 0)
           /\ \A i \in 1..Len(FindingsOf(result, key)) :
                 FindingsOf(result, key)[i].severity = Severity[key]
     /\ \A i \in 1..Len(result.findings) :
           \E key \in Categories : result.findings[i].category = ReportedName[key]

\* a scored run of 10 frames with pest signs in one of them: the pest finding
\* is emitted at rate 10, the handwash finding at rate 0, no bare-hands finding
C9_Witness ==
  /\ Scored /\ totalFrames = 10
  /\ RateOf(result, "pestSigns") = Num(10)
  /\ Len(FindingsOf(result, "pestSigns")) = 1
  /\ FindingsOf(result, "bareHands") = <<>>
  /\ Len(FindingsOf(result, "handwashStation")) = 1

----------------------------------------------------------------------------
(* C10 *)

\* the category a finding is about
KeyOf(finding) == CHOOSE key \in Categories : ReportedName[key] = finding.category

\* C10: for any order of the input frame analyses, every finding's timestamp
\* is the earliest timestamp of its category's detectedFrames when that list
\* is non-empty, and 0 when it is empty.
C10_EarliestTimestamp ==
  (Scored /\ totalFrames >= 1) =>
     \A i \in 1..Len(result.findings) :
        LET frames == detections[KeyOf(result.findings[i])].detectedFrames
        IN  result.findings[i].timestamp =
               (IF frames = <<>> THEN 0 ELSE Minimum(ElementsOf(frames)))

----------------------------------------------------------------------------
(* C11 *)

\* position of a severity in the ranking critical, major, minor
SeverityRank(severity) ==
  CASE severity = "critical" -> 1
    [] severity = "major"    -> 2
    [] severity = "minor"    -> 3

\* C11: the findings returned by calculateScores are ranked by severity: every
\* critical finding precedes every major finding, which precedes every minor one.
C11_RankedBySeverity ==
  Scored =>
     \A i, j \in 1..Len(result.findings) :
        i < j => SeverityRank(result.findings[i].severity)
                    <= SeverityRank(result.findings[j].severity)

----------------------------------------------------------------------------
(* generateSuggestions on its own: inputs and state machine *)

\* most findings of a list handed to generateSuggestions
MaxFindings == 2

\* order in which calculateScores pushes the categories
ScoreOrder ==
  <<"protectiveGloves", "cleanSurface", "hairNet", "properApron",
    "handwashStation", "bareHands", "pestSigns", "crossContamination">>

\* a finding of calculateScores about a category, nothing detected
InputFinding(key) ==
  Finding(ReportedName[key], Severity[key], "", 0, 1, Num(0))

\* individualScores in which the categories of lowSet score 69 and the others 70
InputScores(lowSet) ==
  [i \in 1..Len(ScoreOrder) |->
     HygieneScore(ReportedName[ScoreOrder[i]],
                  IF ScoreOrder[i] \in lowSet THEN Num(69) ELSE Num(70),
                  CATEGORY_WEIGHTS[ScoreOrder[i]], Num(0), Num(0))]

\* the sets of categories scoring below 70
LowSets ==
  { {}, {"protectiveGloves"}, {"bareHands", "pestSigns"},
    {"cleanSurface", "hairNet", "handwashStation"}, Categories }

\* a call of generateSuggestions: up to MaxFindings findings in any order,
\* repeated categories included, and the scores of the eight categories
InitSuggest ==
  /\ pc = "suggest"
  /\ \E k \in 0..MaxFindings : \E keys \in [1..k -> Categories] :
        \E lowSet \in LowSets :
           result = [findings         |-> [i \in 1..k |-> InputFinding(keys[i])],
                     individualScores |-> InputScores(lowSet)]
  /\ analyses = <<>>
  /\ labelResults = <<>>
  /\ totalFrames = 0
  /\ detections = NoValue
  /\ RunIdle
  /\ RestIdle

GenerateSuggestions ==
  /\ pc = "suggest"
  /\ improvements' = generateSuggestions(result.findings, result.individualScores)
  /\ pc' = "suggested"
  /\ UNCHANGED <<analyses, labelResults, totalFrames, detections, result, clientVars>>
  /\ UNCHANGED restVars

NextSuggest == GenerateSuggestions

SpecSuggest == InitSuggest /\ [][NextSuggest]_vars

----------------------------------------------------------------------------
(* C12 *)

RECURSIVE FirstOccurrences(_)
\* the distinct elements of a sequence, in the order they first occur
FirstOccurrences(seq) ==
  IF seq = <<>> THEN <<>>
  ELSE LET front == SubSeq(seq, 1, Len(seq) - 1)
           last  == seq[Len(seq)]
       IN  IF Includes(front, last) THEN FirstOccurrences(front)
           ELSE Append(FirstOccurrences(front), last)

CategoriesOf(items) == [i \in 1..Len(items) |-> items[i].category]

NoDuplicates(seq) == \A i, j \in 1..Len(seq) : i # j => seq[i] # seq[j]

\* C12: generateSuggestions returns a non-empty list without duplicates: one
\* suggestion per distinct finding category in finding order, then one for each
\* category scoring below 70 that has no finding; if both are empty, exactly
\* the positive-reinforcement message.
C12_Suggestions ==
  pc = "suggested" =>
     LET findingCategories == FirstOccurrences(CategoriesOf(result.findings))
         lowCategories ==
           CategoriesOf(SelectSeq(result.individualScores, LAMBDA sc :
              NumLt(sc.score, Num(70)) /\ ~Includes(findingCategories, sc.category)))
         expected == [i \in 1..Len(findingCategories) |->
                        SUGGESTION_MAP(findingCategories[i])]
                     \o [i \in 1..Len(lowCategories) |->
                           SUGGESTION_MAP(lowCategories[i])]
     IN  /\ improvements # <<>>
         /\ NoDuplicates(improvements)
         /\ improvements = (IF expected = <<>> THEN <<POSITIVE_REINFORCEMENT>>
                            ELSE expected)

\* two findings of the same category, and a second category that scores below
\* 70 without a finding: two suggestions, the finding's first
C12_Witness ==
  /\ pc = "suggested"
  /\ Len(result.findings) = 2
  /\ result.findings[1].category = "Bare Hands"
  /\ result.findings[2].category = "Bare Hands"
  /\ improvements = <<SUGGESTION_MAP("Bare Hands"), SUGGESTION_MAP("Pest Control")>>

----------------------------------------------------------------------------
(* /api/vision/analyze: the text answered by the vision model *)

(* A response text is a sequence of segments of four kinds:                *)
(*   prose  words without braces or backticks                              *)
(*   fence  a code fence, ``` or ```json                                   *)
(*   open   text with an opening brace that is never closed                *)
(*   json   the JSON text of a value                                       *)
(* White space between segments is not represented.                        *)

JsonObject(fields) == [type |-> "object", fields |-> fields]

JsonNull == [type |-> "null", fields |-> <<>>]

Prose == [kind |-> "prose", json |-> JsonNull]

Fence == [kind |-> "fence", json |-> JsonNull]

OpenBrace == [kind |-> "open", json |-> JsonNull]

JsonText(value) == [kind |-> "json", json |-> value]

IsJsonText(segment) == segment.kind = "json"

\* the segment contains "{" / "}"
HasOpeningBrace(segment) ==
  segment.kind = "open" \/ (IsJsonText(segment) /\ segment.json.type = "object")

HasClosingBrace(segment) == IsJsonText(segment) /\ segment.json.type = "object"

Thrown == [threw |-> TRUE, value |-> JsonNull]

\* JSON.parse(text): the value of a text that is exactly one JSON text
JSONParse(text) ==
  IF Len(text) = 1 /\ IsJsonText(text[1])
  THEN [threw |-> FALSE, value |-> text[1].json]
  ELSE Thrown

\* parsed && typeof parsed === 'object' && 'protectiveGloves' in parsed
HasGlovesKey(parsed) ==
  parsed.type = "object" /\ "protectiveGloves" \in DOMAIN parsed.fields

NoMatch == [matched |-> FALSE, group |-> <<>>]

\* text.match(/```(?:json)?\s*([\s\S]*?)```/): what lies between the first
\* fence and the next one
CodeBlockMatch(text) ==
  LET fences == {i \in 1..Len(text) : text[i].kind = "fence"}
  IN  IF Cardinality(fences) < 2 THEN NoMatch
      ELSE LET first  == CHOOSE i \in fences : \A j \in fences : i <= j
               second == CHOOSE i \in fences \ {first} :
                            \A j \in fences \ {first} : i <= j
           IN  [matched |-> TRUE, group |-> SubSeq(text, first + 1, second - 1)]

\* text.match(/\{[\s\S]*\}/): from the first "{" to the last "}"
JsonMatch(text) ==
  LET opening == {i \in 1..Len(text) : HasOpeningBrace(text[i])}
      closing == {i \in 1..Len(text) : HasClosingBrace(text[i])}
  IN  IF opening = {} THEN NoMatch
      ELSE LET first == CHOOSE i \in opening : \A j \in opening : i <= j
               after == {i \in closing : i >= first}
           IN  IF after = {} THEN NoMatch
               ELSE [matched |-> TRUE,
                     group   |-> SubSeq(text, first,
                                        CHOOSE i \in after : \A j \in after : j <= i)]

\* one attempt: the parsed value if the candidate parses to an object with
\* the key protectiveGloves
Attempt(match) ==
  IF ~match.matched THEN [ok |-> FALSE, value |-> JsonNull]
  ELSE LET parsed == JSONParse(match.group)
       IN  IF ~parsed.threw /\ HasGlovesKey(parsed.value)
           THEN [ok |-> TRUE, value |-> parsed.value]
           ELSE [ok |-> FALSE, value |-> JsonNull]

\* the parsed categories, or null (ok = FALSE) when the three attempts fail
parseVLMResponse(text) ==
  LET direct    == Attempt([matched |-> TRUE, group |-> text])
      codeBlock == Attempt(CodeBlockMatch(text))
      embedded  == Attempt(JsonMatch(text))
  IN  IF direct.ok THEN direct
      ELSE IF codeBlock.ok THEN codeBlock
      ELSE IF embedded.ok THEN embedded
      ELSE [ok |-> FALSE, value |-> JsonNull]

DEFAULT_CATEGORY == [detected |-> FALSE, confidence |-> Num(0), details |-> "Not detected"]

getFallbackCategories == [key \in Categories |-> DEFAULT_CATEGORY]

----------------------------------------------------------------------------
(* /api/vision/analyze: the POST handler *)

\* an HTTP response as its reader sees it: status, whether the body is JSON,
\* the body's error and message fields ("" when absent) and, for an answer of
\* the handler with status 200, the frame analysis
HttpResponse(status, isJson, error, message, analysis) ==
  [status |-> status, isJson |-> isJson, error |-> error, message |-> message,
   analysis |-> analysis]

\* NextResponse.json({ error, message }, { status })
ErrorResponse(status, error, message) ==
  HttpResponse(status, TRUE, error, message, NoValue)

\* NextResponse.json({ frameNumber, timestamp, categories })
AnalysisResponse(request, categories) ==
  HttpResponse(200, TRUE, "", "",
               [frameNumber |-> request.frameNumber, timestamp |-> request.timestamp,
                categories |-> categories])

\* `VLM API returned status ${response.status}`
ReturnedStatusMessage(status) ==
  CASE status = 401 -> "VLM API returned status 401"
    [] status = 500 -> "VLM API returned status 500"

\* what the inference API does with one request: the fetch throws (reached =
\* FALSE, message = the error's message) or it answers with a status, a JSON
\* or non-JSON body, an error message ("" when the body has none) and, for
\* status 200, the text of choices[0].message.content
Upstream(reached, status, isJson, message, content) ==
  [reached |-> reached, status |-> status, isJson |-> isJson, message |-> message,
   content |-> content]

\* faulty variant: a text that cannot be parsed is answered with status 500
RouteParsed_Error(request, content) ==
  LET categories == parseVLMResponse(content)
  IN  IF ~categories.ok
      THEN ErrorResponse(500, "Internal server error", "Unparseable response")
      ELSE AnalysisResponse(request, categories.value.fields)

\* lines 196-217: parse the content, answer the categories or the fallback
RouteParsed(request, content) ==
  LET categories == parseVLMResponse(content)
  IN  IF ~categories.ok
      THEN AnalysisResponse(request, getFallbackCategories)
      ELSE AnalysisResponse(request, categories.value.fields)

\* lines 161-169: status 429 of the inference API
RouteRateLimited(request) == AnalysisResponse(request, getFallbackCategories)

\* export async function POST(request)
POST(request, tokenConfigured, upstream) ==
  IF ~request.image
  THEN ErrorResponse(400, "Missing image data", "")
  ELSE IF ~tokenConfigured
  THEN ErrorResponse(500, "VLM API not configured",
                     "HUGGINGFACE_API_TOKEN environment variable is missing")
  ELSE IF ~upstream.reached
  THEN ErrorResponse(502, "Failed to reach VLM API", upstream.message)
  ELSE IF upstream.status = 429
  THEN RouteRateLimited(request)
  ELSE IF upstream.status = 503
  THEN AnalysisResponse(request, getFallbackCategories)
  ELSE IF upstream.status # 200
  THEN LET errorMessage == IF upstream.isJson /\ upstream.message # ""
                           THEN upstream.message
                           ELSE ReturnedStatusMessage(upstream.status)
       IN  ErrorResponse(upstream.status, errorMessage, errorMessage)
  ELSE IF ~upstream.isJson
  THEN ErrorResponse(500, "Internal server error", "Unexpected token in JSON")
  ELSE RouteParsed(request, upstream.content)

----------------------------------------------------------------------------
(* Detector client: analyzeFrame and analyzeFramesBatch (src/lib/vlm-service.ts) *)

\* `HTTP ${response.status}`
HttpStatusMessage(status) ==
  CASE status = 400 -> "HTTP 400"
    [] status = 401 -> "HTTP 401"
    [] status = 429 -> "HTTP 429"
    [] status = 500 -> "HTTP 500"
    [] status = 502 -> "HTTP 502"

\* `VLM API returned ${response.status}`
ReturnedMessage(status) ==
  CASE status = 400 -> "VLM API returned 400"
    [] status = 401 -> "VLM API returned 401"
    [] status = 429 -> "VLM API returned 429"
    [] status = 500 -> "VLM API returned 500"
    [] status = 502 -> "VLM API returned 502"

\* the ways one fetch of /api/vision/analyze can go: the fetch itself fails
\* (via = "network"), the handler answers (via = "route"), or the answer comes
\* from in front of the handler, as a platform's own 429 (via = "direct")
Exchange(via, upstream, response) ==
  [via |-> via, tokenConfigured |-> TRUE, upstream |-> upstream, response |-> response]

NoUpstream == Upstream(FALSE, 0, FALSE, "", <<>>)

NoResponse == HttpResponse(0, FALSE, "", "", NoValue)

Fulfilled(value) == [status |-> "fulfilled", value |-> value, reason |-> ""]

Rejected(reason) == [status |-> "rejected", value |-> NoValue, reason |-> reason]

Pending == [status |-> "pending", value |-> NoValue, reason |-> ""]

\* the response the fetch of analyzeFrame resolves with
ResponseTo(request, exchange) ==
  IF exchange.via = "route"
  THEN POST(request, exchange.tokenConfigured, exchange.upstream)
  ELSE exchange.response

\* the exchange once the fetch has completed
Completed(request, exchange) ==
  [exchange EXCEPT !.response = ResponseTo(request, exchange)]

\* analyzeFrame after its fetch: the promise it returns settles with the JSON
\* of an ok response or rejects with the message of the error body
analyzeFrame(request, exchange) ==
  IF exchange.via = "network" THEN Rejected("Failed to fetch")
  ELSE LET response == ResponseTo(request, exchange)
       IN  IF response.status = 200 THEN Fulfilled(response.analysis)
           ELSE Rejected(IF ~response.isJson THEN HttpStatusMessage(response.status)
                         ELSE IF response.message # "" THEN response.message
                         ELSE IF response.error # "" THEN response.error
                         ELSE ReturnedMessage(response.status))

\* firstError.includes(needle), for the messages a frame can be rejected with
MessageIncludes(message, needle) ==
  needle \in (CASE message = "HTTP 429"             -> {"429"}
                [] message = "VLM API returned 429" -> {"429"}
                [] message = "rate limit reached"   -> {"rate"}
                [] message = "Quota exceeded for quota metric" -> {"quota"}
                [] message = "VLM API not configured" -> {"API not configured"}
                [] message = "HUGGINGFACE_API_TOKEN environment variable is missing"
                                                    -> {"HUGGINGFACE_API_TOKEN"}
                [] OTHER                            -> {})

\* new Error(message), with the interpolated part of the message kept apart
ErrorOf(message, detail) == [message |-> message, detail |-> detail]

RECURSIVE FulfilledValues(_)
\* results.forEach: analyses.push(result.value) for the fulfilled ones
FulfilledValues(results) ==
  IF results = <<>> THEN <<>>
  ELSE (IF Head(results).status = "fulfilled" THEN <<Head(results).value>> ELSE <<>>)
       \o FulfilledValues(Tail(results))

RECURSIVE RejectionMessages(_)
\* results.forEach: errors.push(result.reason?.message || 'Unknown error')
RejectionMessages(results) ==
  IF results = <<>> THEN <<>>
  ELSE (IF Head(results).status = "rejected"
        THEN <<IF Head(results).reason = "" THEN "Unknown error"
               ELSE Head(results).reason>>
        ELSE <<>>)
       \o RejectionMessages(Tail(results))

\* faulty variant: one rejected frame fails the batch (Promise.all)
BatchOutcome_AbortOnFailure(results) ==
  LET fulfilled == FulfilledValues(results)
      errors   == RejectionMessages(results)
  IN  IF Len(errors) > 0
      THEN [threw |-> TRUE, error |-> ErrorOf("VLM analysis failed: ", errors[1]),
            analyses |-> <<>>, totalFrames |-> 0]
      ELSE [threw |-> FALSE, error |-> ErrorOf("", ""),
            analyses |-> fulfilled, totalFrames |-> Len(results)]

\* analyzeFramesBatch after Promise.allSettled: what it returns or throws
BatchOutcome(results) ==
  LET fulfilled == FulfilledValues(results)
      errors   == RejectionMessages(results)
      firstError == IF Len(errors) = 0 THEN "Unknown error" ELSE errors[1]
  IN  IF Len(fulfilled) = 0 /\ Len(results) > 0
      THEN [threw |-> TRUE,
            error |->
              IF MessageIncludes(firstError, "API not configured")
                 \/ MessageIncludes(firstError, "HUGGINGFACE_API_TOKEN")
              THEN ErrorOf("Hugging Face API token not configured. Please set HUGGINGFACE_API_TOKEN in your environment variables.", "")
              ELSE IF MessageIncludes(firstError, "rate")
                      \/ MessageIncludes(firstError, "429")
              THEN ErrorOf("VLM API rate limit exceeded. Please try again in a few moments.", "")
              ELSE ErrorOf("VLM analysis failed: ", firstError),
            analyses |-> <<>>, totalFrames |-> 0]
      ELSE [threw |-> FALSE, error |-> ErrorOf("", ""),
            analyses |-> fulfilled, totalFrames |-> Len(results)]

----------------------------------------------------------------------------
(* analyzeVideo (src/lib/types.ts): the steps of one run *)

MIN_DURATION == 5

MAX_DURATION == 300

BRIGHTNESS_THRESHOLD == 30

\* .slice(0, 5): most frames handed to the detector
SUBSAMPLE_CAP == 5

\* faulty variant: only the lower limit of the duration is checked
DurationError_NoUpperLimit(duration) ==
  IF NumLt(duration, Num(MIN_DURATION))
  THEN "Video too short. Please record at least 5 seconds."
  ELSE ""

\* lines 131-137: the message of the error thrown for a duration, "" for none
DurationError(duration) ==
  IF NumLt(duration, Num(MIN_DURATION))
  THEN "Video too short. Please record at least 5 seconds."
  ELSE IF NumGt(duration, Num(MAX_DURATION))
  THEN "Video too long. Maximum duration is 5 minutes."
  ELSE ""

\* error.message.startsWith('Analysis failed:'), which holds of no message
\* thrown inside the try block
StartsWithAnalysisFailed(message) == message \in {"Analysis failed: Unknown error"}

\* lines 242-252: an error whose message starts with 'Analysis failed:' is
\* thrown again as it is, any other is wrapped
AnalysisFailed(error) ==
  IF StartsWithAnalysisFailed(error.message)
  THEN [prefix |-> "", message |-> error.message, detail |-> error.detail]
  ELSE [prefix |-> "Analysis failed: ", message |-> error.message,
        detail |-> error.detail]

Returned == [status |-> "returned", error |-> AnalysisFailed(ErrorOf("", ""))]

ThrownError(error) == [status |-> "thrown", error |-> AnalysisFailed(error)]

Notification(stage, progress) == [stage |-> stage, progress |-> progress]

\* extractFrames: Math.round(((currentFrameIndex + 1) / totalFrames) * 100)
PercentComplete(currentFrame, total) ==
  MathRound(NumMul(NumDiv(Num(currentFrame), Num(total)), Num(100)))

\* 5 + (extraction.percentComplete * 0.25)
ExtractingProgress(percentComplete) ==
  NumAdd(Num(5), NumMul(percentComplete, Rat(25, 100)))

\* faulty variant: the detection stage is spread over 30-90 %
DetectProgress_UpTo90(current, total) ==
  NumAdd(Num(30), NumMul(NumDiv(Num(current), Num(total)), Num(60)))

\* 30 + (current / total) * 50
DetectProgress(current, total) ==
  NumAdd(Num(30), NumMul(NumDiv(Num(current), Num(total)), Num(50)))

\* the frame extractFrames takes at second index
ExtractedFrame(index) == [frameNumber |-> index + 1, timestamp |-> index]

\* faulty variant: every third frame is kept, without the cap
Subsample_Uncapped(count) ==
  LET all  == [i \in 1..count |-> ExtractedFrame(i - 1)]
      kept == {i \in 0..(count - 1) : i % SUBSAMPLE_STRIDE = 0}
  IN  [j \in 1..Cardinality(kept) |-> all[SUBSAMPLE_STRIDE * (j - 1) + 1]]

\* extractionResult.frames.filter((_, i) => i % 3 === 0).slice(0, 5)
Subsample(count) ==
  LET all      == [i \in 1..count |-> ExtractedFrame(i - 1)]
      kept     == {i \in 0..(count - 1) : i % SUBSAMPLE_STRIDE = 0}
      filtered == [j \in 1..Cardinality(kept) |-> all[SUBSAMPLE_STRIDE * (j - 1) + 1]]
  IN  Slice(filtered, SUBSAMPLE_CAP)

\* lines 157-167: the try block around the brightness check and its catch.
\* calculateFrameBrightness may reject; a brightness below the threshold
\* throws; the catch logs either and lets the run continue
BrightnessValidation(brightness) ==
  LET tryBlock == IF ~brightness.readable THEN "rejected"
                  ELSE IF NumLt(brightness.value, Num(BRIGHTNESS_THRESHOLD))
                  THEN "thrown"
                  ELSE "passed"
  IN  [threw |-> FALSE, warned |-> tryBlock # "passed"]

\* secs > 0 ? `${Math.floor(secs / 60)}:${pad(secs % 60)}` : 'Throughout'
TimestampLabel(timestamp) ==
  IF timestamp > 0
  THEN [text |-> "m:ss", minutes |-> timestamp \div 60, seconds |-> timestamp % 60]
  ELSE [text |-> "Throughout", minutes |-> 0, seconds |-> 0]

convertFindings(findings) ==
  [i \in 1..Len(findings) |->
     [type      |-> IF findings[i].severity = "critical" THEN "critical" ELSE "moderate",
      message   |-> findings[i].description,
      timestamp |-> TimestampLabel(findings[i].timestamp)]]

\* scores.find(s => s.category === categoryName): Math.round(score.score)
getScoreForCategory(scores, categoryName) ==
  LET found == SelectSeq(scores, LAMBDA sc : sc.category = categoryName)
  IN  IF found = <<>> THEN Num(0) ELSE MathRound(found[1].score)

\* the AnalysisResult built by analyzeVideo (analyzedAt, a clock reading, is
\* left out)
BuildAnalysisResult(scoringResult, mappedDetections, suggestions) ==
  [score |-> scoringResult.overallScore,
   protectionMeasures |->
     [protectiveGloves |-> getScoreForCategory(scoringResult.individualScores, "Protective Gloves"),
      properApron      |-> getScoreForCategory(scoringResult.individualScores, "Proper Apron")],
   hygieneStandards |->
     [surfaceCleanliness |-> getScoreForCategory(scoringResult.individualScores, "Clean Surfaces"),
      hairCovering       |-> getScoreForCategory(scoringResult.individualScores, "Hair Covering")],
   handWashing |->
     [handwashStation |-> getScoreForCategory(scoringResult.individualScores, "Handwash Station")],
   foodHandling |->
     [bareHands          |-> getScoreForCategory(scoringResult.individualScores, "Bare Hands"),
      crossContamination |-> getScoreForCategory(scoringResult.individualScores, "Cross Contamination")],
   bacterialRisk |-> NumSub(Num(100), scoringResult.overallScore),
   keyFindings   |-> convertFindings(scoringResult.findings),
   improvements  |-> suggestions,
   detectionMetadata |->
     [glovesDetected    |-> Len(mappedDetections["protectiveGloves"].detectedFrames) > 0,
      bareHandsDetected |-> Len(mappedDetections["bareHands"].detectedFrames) > 0,
      hairNetDetected   |-> Len(mappedDetections["hairNet"].detectedFrames) > 0,
      surfaceDetected   |-> Len(mappedDetections["cleanSurface"].detectedFrames) > 0,
      apronDetected     |-> Len(mappedDetections["properApron"].detectedFrames) > 0,
      handwashDetected  |-> Len(mappedDetections["handwashStation"].detectedFrames) > 0,
      pestDetected      |-> Len(mappedDetections["pestSigns"].detectedFrames) > 0]]

----------------------------------------------------------------------------
(* analyzeVideo: inputs and state machine *)

\* longest of the short durations explored (besides 300, 301 and Infinity)
MaxDuration == 7

\* Math.floor(video.duration) as getVideoDuration resolves it: a whole number
\* of seconds, or Infinity for a recording without a duration in its header
ShortDurations == {Num(d) : d \in 0..MaxDuration}

LongDurations == {Num(MAX_DURATION), Num(MAX_DURATION + 1), Infinity}

\* the recording timer's value, used when the metadata cannot be loaded
EstimatedDurations == {Num(MIN_DURATION - 1), Num(MIN_DURATION)}

Bright == [readable |-> TRUE, value |-> Num(120)]

\* calculateFrameBrightness of the middle frame: rejected, dark or bright
Brightnesses ==
  { [readable |-> FALSE, value |-> Num(0)],
    [readable |-> TRUE,  value |-> Num(10)],
    Bright }

\* what the vision model sees in the i-th submitted frame
DetectedAt(i) ==
  CASE i = 1 -> {"protectiveGloves", "bareHands", "cleanSurface"}
    [] i = 2 -> {"bareHands"}
    [] i = 3 -> {"pestSigns", "handwashStation"}
    [] i = 4 -> {"hairNet", "properApron"}
    [] OTHER -> {}

\* the model answers the i-th frame with the JSON of its categories
AnsweredContent(i) ==
  <<JsonText(JsonObject(FrameCategories(DetectedAt(i), FrameConfidence(i))))>>

\* answers of the model that break the format of the prompt: a confidence
\* above 1, one below 0, no entry for bareHands, a pestSigns entry without
\* its detected flag, and a pestSigns entry without its confidence
OffFormatAnswers ==
  LET asked == FrameCategories({"pestSigns", "bareHands"}, Rat(9, 10))
  IN  { [asked EXCEPT !["pestSigns"].confidence = Rat(3, 2)],
        [asked EXCEPT !["pestSigns"].confidence = Rat(-1, 2)],
        [key \in Categories \ {"bareHands"} |-> asked[key]],
        [asked EXCEPT !["pestSigns"] = [confidence |-> Rat(9, 10)]],
        [asked EXCEPT !["pestSigns"] = [detected |-> TRUE]] }

\* what the fetch of the i-th frame can meet: an answer of the model, the
\* inference API's 429, a 429 from in front of the handler without a JSON
\* body, and one with a JSON body; the first frame can also meet an answer
\* off the format
RunExchanges(i) ==
  { Exchange("route", Upstream(TRUE, 200, TRUE, "", AnsweredContent(i)), NoResponse),
    Exchange("route", Upstream(TRUE, 429, TRUE, "", <<>>), NoResponse),
    Exchange("direct", NoUpstream, HttpResponse(429, FALSE, "", "", NoValue)),
    Exchange("direct", NoUpstream,
             HttpResponse(429, TRUE, "", "Too Many Requests", NoValue)) }
  \cup (IF i = 1
        THEN { Exchange("route",
                        Upstream(TRUE, 200, TRUE, "", <<JsonText(JsonObject(answer))>>),
                        NoResponse) : answer \in OffFormatAnswers }
        ELSE {})

NoExchange == Exchange("none", NoUpstream, NoResponse)

\* the body analyzeFrame posts for a frame
RequestOf(frame) ==
  [image |-> TRUE, frameNumber |-> frame.frameNumber, timestamp |-> frame.timestamp]

\* a report of an earlier run that the page may still show
EarlierReport == [overallScore |-> 100, keyFindings |-> <<>>]

\* a recording: short ones with every brightness, long ones well lit, and
\* recordings whose metadata cannot be loaded; the page is as first rendered
\* or, for the recordings of at most MIN_DURATION seconds, still shows the
\* report of an earlier run made while signed out
InitRun ==
  /\ pc = "run"
  /\ \/ \E duration \in ShortDurations : \E brightness \in Brightnesses :
           video = [metadataLoads |-> TRUE, duration |-> duration,
                    estimatedDuration |-> duration, brightness |-> brightness]
     \/ \E duration \in LongDurations :
           video = [metadataLoads |-> TRUE, duration |-> duration,
                    estimatedDuration |-> duration, brightness |-> Bright]
     \/ \E estimated \in EstimatedDurations : \E brightness \in Brightnesses :
           video = [metadataLoads |-> FALSE, duration |-> NaN,
                    estimatedDuration |-> estimated, brightness |-> brightness]
  /\ actualDuration = NoValue
  /\ extracted = 0
  /\ subsampledFrames = <<>>
  /\ calls = <<>>
  /\ exchanges = <<>>
  /\ settled = <<>>
  /\ notifications = <<>>
  /\ outcome = NoValue
  /\ analysisResult = NoValue
  /\ improvements = NoValue
  /\ analyses = <<>>
  /\ labelResults = <<>>
  /\ totalFrames = 0
  /\ detections = NoValue
  /\ result = NoValue
  /\ OffPageIdle
  /\ \/ PageIdle
     \/ /\ ~NumGt(video.estimatedDuration, Num(MIN_DURATION))
        /\ analysisStatus = "complete"
        /\ analysisResults = <<EarlierReport>>
        /\ pageError = <<>>
        /\ startedAs = <<>>
        /\ user = <<>>
        /\ pendingResultsRef = <<[results |-> EarlierReport, duration |-> Num(MIN_DURATION)]>>
        /\ saves = <<>>
        /\ analysesStarted = 1

scoringVars == <<analyses, labelResults, totalFrames, detections, result, improvements,
                 analysisResult>>

detectorVars == <<subsampledFrames, calls, exchanges, settled>>

\* the progress callback of handleAnalysisStart (page.tsx 83-89)
StatusAfter(status, stage) ==
  IF stage = "extracting" THEN "extracting"
  ELSE IF stage = "detecting" \/ stage = "scoring" THEN "analyzing"
  ELSE status

\* the page while analyzeVideo runs: each notification of the step goes
\* through the progress callback, nothing else of the page changes
PageFollows ==
  /\ analysisStatus' =
        (IF Len(notifications') > Len(notifications)
         THEN StatusAfter(analysisStatus, notifications'[Len(notifications')].stage)
         ELSE analysisStatus)
  /\ UNCHANGED <<analysisResults, pageError, startedAs, user, pendingResultsRef, saves,
                 analysesStarted>>

\* handleAnalysisStart up to the first await of analyzeVideo (page.tsx 74-83),
\* line 117: the first notification, then the wait for getVideoDuration
StartRun ==
  /\ pc = "run"
  /\ notifications' = <<Notification("extracting", Num(0))>>
  /\ pc' = "loading"
  /\ analysisResults' = <<>>
  /\ pageError' = <<>>
  /\ startedAs' = <<user>>
  /\ analysesStarted' = analysesStarted + 1
  /\ analysisStatus' = StatusAfter("extracting", "extracting")
  /\ UNCHANGED <<video, actualDuration, extracted, outcome, detectorVars, scoringVars>>
  /\ UNCHANGED <<offPageVars, user, pendingResultsRef, saves>>

\* lines 119-148: the duration from the metadata or, if that fails, the
\* estimate; the range check; the call of extractFrames
LoadDuration ==
  /\ pc = "loading"
  /\ LET duration == IF video.metadataLoads THEN video.duration
                     ELSE video.estimatedDuration
     IN  /\ actualDuration' = duration
         /\ IF DurationError(duration) # ""
            THEN /\ outcome' = ThrownError(ErrorOf(DurationError(duration), ""))
                 /\ pc' = "failed"
                 /\ UNCHANGED notifications
            ELSE /\ notifications' =
                      Append(notifications, Notification("extracting", Num(5)))
                 /\ pc' = "extracting"
                 /\ UNCHANGED outcome
  /\ UNCHANGED <<video, extracted, detectorVars, scoringVars>>
  /\ UNCHANGED offPageVars
  /\ PageFollows

\* extractFrames, video.onseeked: one frame is stored and reported
ExtractFrame ==
  /\ pc = "extracting"
  /\ extracted < actualDuration.num
  /\ extracted' = extracted + 1
  /\ notifications' =
        Append(notifications,
               Notification("extracting",
                            ExtractingProgress(PercentComplete(extracted + 1,
                                                               actualDuration.num))))
  /\ UNCHANGED <<pc, video, actualDuration, outcome, detectorVars, scoringVars>>
  /\ UNCHANGED offPageVars
  /\ PageFollows

\* extractFrames rejects (the video fails to load or a frame cannot be drawn)
ExtractionFails ==
  /\ pc = "extracting"
  /\ extracted < actualDuration.num
  /\ outcome' = ThrownError(ErrorOf("Video loading failed", ""))
  /\ pc' = "failed"
  /\ UNCHANGED <<video, actualDuration, extracted, notifications, detectorVars,
                 scoringVars>>
  /\ UNCHANGED offPageVars
  /\ PageFollows

\* extractFrames resolves; analyzeVideo waits for calculateFrameBrightness
FinishExtraction ==
  /\ pc = "extracting"
  /\ extracted = actualDuration.num
  /\ pc' = "validating"
  /\ UNCHANGED <<video, actualDuration, extracted, notifications, outcome,
                 detectorVars, scoringVars>>
  /\ UNCHANGED offPageVars
  /\ PageFollows

\* lines 157-192 and analyzeFramesBatch up to Promise.allSettled: the
\* brightness check, the sub-sampling, and one analyzeFrame call per frame,
\* all started in the same synchronous frames.map
ValidateBrightness ==
  /\ pc = "validating"
  /\ IF BrightnessValidation(video.brightness).threw
     THEN /\ outcome' = ThrownError(ErrorOf("Video too dark for reliable analysis. Please record in a well-lit environment.", ""))
          /\ pc' = "failed"
          /\ UNCHANGED <<notifications, detectorVars>>
     ELSE LET submitted == Subsample(extracted)
          IN  /\ subsampledFrames' = submitted
              /\ notifications' =
                    notifications
                    \o <<Notification("detecting", Num(30)),
                         Notification("detecting", DetectProgress(0, Len(submitted)))>>
              /\ calls' = [i \in 1..Len(submitted) |-> 1]
              /\ exchanges' = [i \in 1..Len(submitted) |-> NoExchange]
              /\ settled' = [i \in 1..Len(submitted) |-> Pending]
              /\ pc' = "detecting"
              /\ UNCHANGED outcome
  /\ UNCHANGED <<video, actualDuration, extracted, scoringVars>>
  /\ UNCHANGED offPageVars
  /\ PageFollows

\* faulty variant: a rejected call is made again
SettleFrame_Retry(i) ==
  /\ pc = "detecting"
  /\ settled[i].status = "pending"
  /\ \E exchange \in RunExchanges(i) :
        LET promise == analyzeFrame(RequestOf(subsampledFrames[i]), exchange)
        IN  /\ exchanges' = [exchanges EXCEPT
                                ![i] = Completed(RequestOf(subsampledFrames[i]), exchange)]
            /\ settled' = [settled EXCEPT ![i] = IF promise.status = "rejected" /\ calls[i] < 2
                                                 THEN Pending ELSE promise]
            /\ calls' = [calls EXCEPT ![i] = IF promise.status = "rejected" /\ calls[i] < 2
                                             THEN @ + 1 ELSE @]
  /\ UNCHANGED <<pc, video, actualDuration, extracted, subsampledFrames, notifications,
                 outcome, scoringVars>>
  /\ UNCHANGED offPageVars
  /\ PageFollows

\* the fetch of one frame's call completes and its promise settles
SettleFrame(i) ==
  /\ pc = "detecting"
  /\ settled[i].status = "pending"
  /\ \E exchange \in RunExchanges(i) :
        /\ exchanges' = [exchanges EXCEPT
                            ![i] = Completed(RequestOf(subsampledFrames[i]), exchange)]
        /\ settled' = [settled EXCEPT
                         ![i] = analyzeFrame(RequestOf(subsampledFrames[i]), exchange)]
  /\ UNCHANGED <<pc, video, actualDuration, extracted, subsampledFrames, calls,
                 notifications, outcome, scoringVars>>
  /\ UNCHANGED offPageVars
  /\ PageFollows

\* faulty variant: the batch goes on as soon as one call is rejected
AllSettled_OrOneRejected ==
  \/ \A i \in 1..Len(settled) : settled[i].status # "pending"
  \/ \E i \in 1..Len(settled) : settled[i].status = "rejected"

\* Promise.allSettled resolves
AllSettled == \A i \in 1..Len(settled) : settled[i].status # "pending"

\* analyzeFramesBatch after Promise.allSettled (lines 88-117) and the catch
\* of analyzeVideo if it throws
GatherResults ==
  /\ pc = "detecting"
  /\ AllSettled
  /\ LET batch == BatchOutcome(settled)
     IN  /\ notifications' =
               Append(notifications,
                      Notification("detecting",
                                   DetectProgress(Len(subsampledFrames),
                                                  Len(subsampledFrames))))
         /\ IF batch.threw
            THEN /\ outcome' = ThrownError(batch.error)
                 /\ pc' = "failed"
                 /\ UNCHANGED <<analyses, totalFrames>>
            ELSE /\ analyses' = batch.analyses
                 /\ totalFrames' = batch.totalFrames
                 /\ pc' = "gathered"
                 /\ UNCHANGED outcome
  /\ UNCHANGED <<video, actualDuration, extracted, detectorVars, labelResults,
                 detections, result, improvements, analysisResult>>
  /\ UNCHANGED offPageVars
  /\ PageFollows

\* lines 194-241: aggregation, scoring, the report and the last notifications
ScoreRun ==
  /\ pc = "gathered"
  /\ LET count            == Len(subsampledFrames)
         mappedDetections == parseVLMResults(analyses, count)
         scoringResult    == calculateScores(mappedDetections, count)
         suggestions      == generateSuggestions(scoringResult.findings,
                                                 scoringResult.individualScores)
     IN  /\ totalFrames' = count
         /\ detections' = mappedDetections
         /\ result' = scoringResult
         /\ improvements' = suggestions
         /\ analysisResult' =
               BuildAnalysisResult(scoringResult, mappedDetections, suggestions)
  /\ notifications' =
        notifications \o <<Notification("scoring", Num(80)),
                           Notification("scoring", Num(95)),
                           Notification("scoring", Num(100))>>
  /\ outcome' = Returned
  /\ pc' = "done"
  /\ UNCHANGED <<video, actualDuration, extracted, detectorVars, analyses, labelResults>>
  /\ UNCHANGED offPageVars
  /\ PageFollows

\* handleAnalysisStart after analyzeVideo resolved (page.tsx 91-100)
ShowResults ==
  /\ pc = "done"
  /\ startedAs # <<>>
  /\ analysisResults' = <<analysisResult>>
  /\ analysisStatus' = "complete"
  /\ LET stash == [results |-> analysisResult, duration |-> video.estimatedDuration]
     IN  IF startedAs[1] # <<>>
         THEN /\ saves' = Append(saves, [body |-> stash, state |-> "sent"])
              /\ UNCHANGED pendingResultsRef
         ELSE /\ pendingResultsRef' = <<stash>>
              /\ UNCHANGED saves
  /\ startedAs' = <<>>
  /\ UNCHANGED <<pc, pageError, user, analysesStarted, runVars, offPageVars>>
  /\ UNCHANGED <<analyses, labelResults, totalFrames, detections, result>>

\* faulty variant: the catch leaves the status as it is
ReportFailure_KeepsStatus ==
  /\ pc = "failed"
  /\ startedAs # <<>>
  /\ pageError' = <<outcome.error>>
  /\ startedAs' = <<>>
  /\ UNCHANGED <<pc, analysisStatus, analysisResults, user, pendingResultsRef, saves,
                 analysesStarted, runVars, offPageVars>>
  /\ UNCHANGED <<analyses, labelResults, totalFrames, detections, result>>

\* handleAnalysisStart after analyzeVideo rejected (page.tsx 101-107)
ReportFailure ==
  /\ pc = "failed"
  /\ startedAs # <<>>
  /\ pageError' = <<outcome.error>>
  /\ analysisStatus' = "idle"
  /\ startedAs' = <<>>
  /\ UNCHANGED <<pc, analysisResults, user, pendingResultsRef, saves, analysesStarted,
                 runVars, offPageVars>>
  /\ UNCHANGED <<analyses, labelResults, totalFrames, detections, result>>

NextRun ==
  \/ StartRun
  \/ LoadDuration
  \/ ExtractFrame
  \/ ExtractionFails
  \/ FinishExtraction
  \/ ValidateBrightness
  \/ \E i \in 1..SUBSAMPLE_CAP : i <= Len(settled) /\ SettleFrame(i)
  \/ GatherResults
  \/ ScoreRun
  \/ ShowResults
  \/ ReportFailure

SpecRun == InitRun /\ [][NextRun]_vars

----------------------------------------------------------------------------
(* Vocabulary of the properties of a run *)

\* the duration used by the run is known
DurationKnown == pc \notin {"run", "loading"}

\* frames whose call has been answered by a fulfilled promise
FulfilledFrames == {i \in 1..Len(settled) : settled[i].status = "fulfilled"}

PendingFrames == {i \in 1..Len(settled) : settled[i].status = "pending"}

\* analyzeFramesBatch has returned or thrown
BatchEnded == Len(settled) > 0 /\ pc \in {"gathered", "done", "failed"}

LastNotification == notifications[Len(notifications)]

----------------------------------------------------------------------------
(* C13 *)

\* C13: if the duration used by analyzeVideo is below 5 or above 300 seconds
\* the run fails with a duration error, and no frame is extracted and no
\* detector call is made in that run.
C13_DurationGate ==
  (DurationKnown /\ (NumLt(actualDuration, Num(5)) \/ NumGt(actualDuration, Num(300)))) =>
     /\ pc = "failed"
     /\ outcome.status = "thrown"
     /\ outcome.error.message \in
           {"Video too short. Please record at least 5 seconds.",
            "Video too long. Maximum duration is 5 minutes."}
     /\ extracted = 0
     /\ notifications = <<Notification("extracting", Num(0))>>
     /\ subsampledFrames = <<>>
     /\ calls = <<>>

\* a run on a 3-second video has failed
C13_Witness ==
  /\ pc = "failed"
  /\ actualDuration = Num(3)
  /\ outcome.error.message = "Video too short. Please record at least 5 seconds."

----------------------------------------------------------------------------
(* C14 *)

\* the middle frame's average brightness is below the threshold
TooDark == video.brightness.readable /\ NumLt(video.brightness.value, Num(30))

\* C14: with a middle frame darker than 30 the run never proceeds to
\* detection: no detector call is made, and a run that gets past extraction
\* ends with the lighting error.
C14_LightingGate ==
  TooDark =>
     /\ pc \notin {"detecting", "gathered", "done"}
     /\ \A i \in 1..Len(calls) : calls[i] = 0

----------------------------------------------------------------------------
(* C15 *)

\* C15: for a non-empty frame list analyzeFramesBatch succeeds iff at least
\* one per-frame call succeeds; the analyses are exactly the results of the
\* successful frames in input order, failed frames omitted, and totalFrames
\* is the number of frames submitted.
C15_PartialFailure ==
  BatchEnded =>
     /\ PendingFrames = {}
     /\ pc = "failed" <=> FulfilledFrames = {}
     /\ pc # "failed" =>
           /\ Len(analyses) = Cardinality(FulfilledFrames)
           /\ \A k \in 1..Len(analyses) :
                 \E i \in FulfilledFrames :
                    /\ Cardinality({j \in FulfilledFrames : j < i}) = k - 1
                    /\ analyses[k] = settled[i].value
                    /\ analyses[k].frameNumber = subsampledFrames[i].frameNumber
                    /\ analyses[k].timestamp = subsampledFrames[i].timestamp
           /\ totalFrames = Len(subsampledFrames)

\* three frames, the first rejected, the other two analysed: two analyses in
\* frame order, totalFrames 3
C15_Witness ==
  /\ pc = "done"
  /\ Len(settled) = 3
  /\ settled[1].status = "rejected"
  /\ FulfilledFrames = {2, 3}
  /\ Len(analyses) = 2
  /\ analyses[1].timestamp = 3
  /\ analyses[2].timestamp = 6
  /\ totalFrames = 3

----------------------------------------------------------------------------
(* C16 *)

\* the call of frame i met a 429, from the inference API or in front of the
\* handler
Hit429(i) ==
  \/ exchanges[i].via = "route" /\ exchanges[i].upstream.status = 429
  \/ exchanges[i].via = "direct" /\ exchanges[i].response.status = 429

\* C16: when every frame's detection call of a run hits a 429 the batch fails
\* with the rate-limit error and the run returns no analysis result.
C16_AllRateLimited ==
  (BatchEnded /\ \A i \in 1..Len(settled) : Hit429(i)) =>
     /\ pc = "failed"
     /\ outcome.status = "thrown"
     /\ outcome.error.message =
           "VLM API rate limit exceeded. Please try again in a few moments."

----------------------------------------------------------------------------
(* C17 *)

\* C17: every per-frame call is started before any of them settles, and the
\* batch aggregates, returns or throws only after every call has settled: while
\* a call is in flight the batch has not finished, whatever the others did.
C17_DispatchThenSettle ==
  /\ Len(settled) > 0 =>
        /\ Len(calls) = Len(subsampledFrames)
        /\ \A i \in 1..Len(subsampledFrames) : calls[i] >= 1
  /\ PendingFrames # {} =>
        /\ pc = "detecting"
        /\ analyses = <<>>
        /\ LastNotification = Notification("detecting", Num(30))

\* one call has been rejected while another is still in flight
C17_Witness ==
  /\ pc = "detecting"
  /\ Len(settled) = 3
  /\ settled[1].status = "rejected"
  /\ settled[2].status = "pending"
  /\ settled[3].status = "fulfilled"

----------------------------------------------------------------------------
(* C18 *)

RECURSIVE SumOf(_)
SumOf(seq) == IF seq = <<>> THEN 0 ELSE Head(seq) + SumOf(Tail(seq))

\* C18: no retry: each sampled frame is submitted to the detector at most
\* once, whether its call succeeds or fails, so a run makes no more detector
\* calls than it has sampled frames.
C18_NoRetry ==
  /\ \A i \in 1..Len(calls) : calls[i] <= 1
  /\ SumOf(calls) <= Len(subsampledFrames)

\* a finished run in which a call failed and was made once
C18_Witness ==
  /\ pc = "done"
  /\ \E i \in 1..Len(settled) : settled[i].status = "rejected" /\ calls[i] = 1
  /\ SumOf(calls) = 3

----------------------------------------------------------------------------
(* C19 *)

StageRank(stage) ==
  CASE stage = "extracting" -> 1
    [] stage = "detecting"  -> 2
    [] stage = "scoring"    -> 3

\* C19: in every run the onProgress notifications have percent values within
\* [0,100] that never decrease, the stage never moves backwards (extracting,
\* detecting, scoring), and a successful run ends with percent 100.
C19_ProgressMonotone ==
  /\ \A i \in 1..Len(notifications) : IsPercent(notifications[i].progress)
  /\ \A i \in 1..(Len(notifications) - 1) :
        /\ NumGe(notifications[i + 1].progress, notifications[i].progress)
        /\ StageRank(notifications[i].stage) <= StageRank(notifications[i + 1].stage)
  /\ pc = "done" => LastNotification.progress = Num(100)

\* a successful run on a 7-second video: the first frame is reported at
\* 5 + 14 * 0.25 = 8.5 percent, the last notification at 100
C19_Witness ==
  /\ pc = "done"
  /\ actualDuration = Num(7)
  /\ notifications[3] = Notification("extracting", Rat(17, 2))
  /\ LastNotification = Notification("scoring", Num(100))

----------------------------------------------------------------------------
(* One request to /api/vision/analyze: inputs and state machine *)

\* most segments of a response text
MaxSegments == 4

\* two answers of the model with all eight categories, an object without the
\* key protectiveGloves, and the segments that are no JSON
GlovesAnswer == JsonObject(FrameCategories({"protectiveGloves"}, Rat(9, 10)))

BareHandsAnswer == JsonObject(FrameCategories({"bareHands"}, Rat(6, 10)))

OtherObject == JsonObject([error |-> "none"])

Segments ==
  { Prose, Fence, OpenBrace, JsonText(GlovesAnswer), JsonText(BareHandsAnswer),
    JsonText(OtherObject), JsonText(JsonNull) }

\* what else the inference API can do with a request: unreachable, rate
\* limited, loading, an error with or without a message, a body that is no JSON
OtherUpstreams ==
  { Upstream(FALSE, 0, FALSE, "fetch failed", <<>>),
    Upstream(TRUE, 429, TRUE, "", <<>>),
    Upstream(TRUE, 503, TRUE, "", <<>>),
    Upstream(TRUE, 401, TRUE, "Invalid credentials", <<>>),
    Upstream(TRUE, 500, FALSE, "", <<>>),
    Upstream(TRUE, 200, FALSE, "", <<>>) }

\* analyzeFrame has posted one frame; the inference API answers status 200
\* with a text of up to MaxSegments segments, or does something else, or the
\* API token is not configured
InitRoute ==
  /\ pc = "request"
  /\ subsampledFrames = <<ExtractedFrame(0)>>
  /\ calls = <<1>>
  /\ settled = <<Pending>>
  /\ \/ \E n \in 0..MaxSegments : \E text \in [1..n -> Segments] :
           exchanges = <<Exchange("route", Upstream(TRUE, 200, TRUE, "", text), NoResponse)>>
     \/ \E upstream \in OtherUpstreams :
           exchanges = <<Exchange("route", upstream, NoResponse)>>
     \/ exchanges = <<[Exchange("route", Upstream(TRUE, 200, TRUE, "", <<>>), NoResponse)
                         EXCEPT !.tokenConfigured = FALSE]>>
  /\ video = NoValue
  /\ actualDuration = NoValue
  /\ extracted = 0
  /\ notifications = <<>>
  /\ outcome = NoValue
  /\ analysisResult = NoValue
  /\ improvements = NoValue
  /\ analyses = <<>>
  /\ labelResults = <<>>
  /\ totalFrames = 0
  /\ detections = NoValue
  /\ result = NoValue
  /\ RestIdle

\* the handler answers and the promise of analyzeFrame settles
AnswerFrame ==
  /\ pc = "request"
  /\ exchanges' = <<Completed(RequestOf(subsampledFrames[1]), exchanges[1])>>
  /\ settled' = <<analyzeFrame(RequestOf(subsampledFrames[1]), exchanges[1])>>
  /\ pc' = "answered"
  /\ UNCHANGED <<video, actualDuration, extracted, subsampledFrames, calls, notifications,
                 outcome, scoringVars>>
  /\ UNCHANGED restVars

NextRoute == AnswerFrame

SpecRoute == InitRoute /\ [][NextRoute]_vars

----------------------------------------------------------------------------
(* C20 *)

\* the inference API answered with status 200 and a JSON body, so the handler
\* parsed the content
ContentParsed ==
  /\ pc = "answered"
  /\ exchanges[1].tokenConfigured
  /\ exchanges[1].upstream.reached
  /\ exchanges[1].upstream.status = 200
  /\ exchanges[1].upstream.isJson

\* a candidate is accepted: it is the JSON text of an object with the key
\* protectiveGloves
Accepted(candidate) ==
  /\ Len(candidate) = 1
  /\ candidate[1].kind = "json"
  /\ candidate[1].json.type = "object"
  /\ "protectiveGloves" \in DOMAIN candidate[1].json.fields

IsFence(text, i) == text[i].kind = "fence"

\* the content of the first fenced code block
FencedCandidates(text) ==
  { SubSeq(text, i + 1, j - 1) : <<i, j>> \in
      { p \in (1..Len(text)) \X (1..Len(text)) :
          /\ p[1] < p[2]
          /\ IsFence(text, p[1]) /\ IsFence(text, p[2])
          /\ \A k \in 1..(p[2] - 1) : k # p[1] => ~IsFence(text, k) } }

\* the stretch from the first opening brace to the last closing brace
EmbeddedCandidates(text) ==
  { SubSeq(text, i, j) : <<i, j>> \in
      { p \in (1..Len(text)) \X (1..Len(text)) :
          /\ p[1] <= p[2]
          /\ HasOpeningBrace(text[p[1]]) /\ HasClosingBrace(text[p[2]])
          /\ \A k \in 1..(p[1] - 1) : ~HasOpeningBrace(text[k])
          /\ \A k \in (p[2] + 1)..Len(text) : ~HasClosingBrace(text[k]) } }

AcceptedOf(candidates) == {c \in candidates : Accepted(c)}

\* C20: the content is tried as a whole, then the content of a fenced code
\* block, then an object embedded in prose, and the first that parses to the
\* categories is answered; when all three fail the handler answers status 200
\* with all eight categories not detected, so the frame's call does not fail.
C20_ParseFallback ==
  ContentParsed =>
     LET text       == exchanges[1].upstream.content
         response   == exchanges[1].response
         categories == response.analysis.categories
         fenced     == AcceptedOf(FencedCandidates(text))
         embedded   == AcceptedOf(EmbeddedCandidates(text))
     IN  /\ response.status = 200
         /\ settled[1].status = "fulfilled"
         /\ settled[1].value = response.analysis
         /\ IF Accepted(text) THEN categories = text[1].json.fields
            ELSE IF fenced # {} THEN \E c \in fenced : categories = c[1].json.fields
            ELSE IF embedded # {} THEN \E c \in embedded : categories = c[1].json.fields
            ELSE /\ DOMAIN categories = Categories
                 /\ \A key \in Categories :
                       /\ ~categories[key].detected
                       /\ categories[key].confidence = Num(0)

\* a fenced block holding an object without the categories: the three attempts
\* fail and the frame is answered with nothing detected
C20_Witness ==
  /\ ContentParsed
  /\ exchanges[1].upstream.content = <<Prose, Fence, JsonText(OtherObject), Fence>>
  /\ exchanges[1].response.status = 200
  /\ \A key \in Categories : ~exchanges[1].response.analysis.categories[key].detected
  /\ settled[1].status = "fulfilled"

----------------------------------------------------------------------------
(* C21 *)

\* a number within [0, 1]; NaN is not
InUnitInterval(x) == IsFinite(x) /\ NumGe(x, Num(0)) /\ ~NumGt(x, Num(1))

\* C21: every confidence the detector client hands to the aggregator is
\* within [0, 1], and so is every averageConfidence and every confidence of
\* a finding.
C21_ConfidenceInRange ==
  /\ pc \in {"gathered", "done"} =>
        \A i \in 1..Len(analyses) : \A key \in DOMAIN analyses[i].categories :
           "confidence" \in DOMAIN analyses[i].categories[key] =>
              InUnitInterval(analyses[i].categories[key].confidence)
  /\ pc = "done" =>
        /\ \A key \in Categories : InUnitInterval(detections[key].averageConfidence)
        /\ \A i \in 1..Len(result.findings) : InUnitInterval(result.findings[i].confidence)

----------------------------------------------------------------------------
(* C22 *)

\* parseVLMResults has aggregated the analyses
Aggregated == pc \in {"parsed", "scored"}

\* positions of the input frames that report the category as detected
Contributing(key) == {i \in 1..Len(analyses) : analyses[i].categories[key].detected}

RECURSIVE ConfidenceSum(_, _)
\* sum of the confidences the frames at the given positions report
ConfidenceSum(key, positions) ==
  IF positions = {} THEN Num(0)
  ELSE LET i == CHOOSE p \in positions : TRUE
       IN  NumAdd(analyses[i].categories[key].confidence,
                  ConfidenceSum(key, positions \ {i}))

\* C22: per category, detectedFrames holds no timestamp twice, totalDetections
\* counts the input frames that report the category as detected, and
\* averageConfidence is the mean of the confidences of exactly those frames,
\* 0 when there are none.
C22_Aggregates ==
  Aggregated =>
     \A key \in Categories :
        LET aggregate == detections[key]
            count     == Cardinality(Contributing(key))
        IN  /\ \A i, j \in 1..Len(aggregate.detectedFrames) :
                  i # j => aggregate.detectedFrames[i] # aggregate.detectedFrames[j]
            /\ aggregate.totalDetections = count
            /\ aggregate.averageConfidence =
                  IF count = 0 THEN Num(0)
                  ELSE NumDiv(ConfidenceSum(key, Contributing(key)), Num(count))

\* the first two of three frames report pest signs: two timestamps, two
\* detections, the mean of 0.9 and 0.6, whatever the third frame's confidence
C22_Witness ==
  /\ pc = "parsed"
  /\ Len(analyses) = 3
  /\ Contributing("pestSigns") = {1, 2}
  /\ detections["pestSigns"].detectedFrames = <<analyses[1].timestamp, analyses[2].timestamp>>
  /\ detections["pestSigns"].totalDetections = 2
  /\ detections["pestSigns"].averageConfidence = Rat(3, 4)

----------------------------------------------------------------------------
(* parseVLMResults called again: inputs and state machine *)

\* longest list of frame analyses handed to the repeated calls
MaxAggregated == 3

\* the confidences 0.5 and 0.6 as binary64 values
Confidences ==
  { Double(<<0, 0, 0, 0, 0, 0, 0, 0, 0, 0, 0, 0, 0>>, -1),
    Double(<<3, 3, 3, 3, 3, 3, 3, 3, 3, 3, 3, 3, 3>>, -1) }

\* what a frame reports: nothing, bare hands with one of the confidences, or
\* gloves and bare hands
Reports ==
  LET some == CHOOSE c \in Confidences : TRUE
  IN  {FrameCategories({}, some), FrameCategories({"protectiveGloves", "bareHands"}, some)}
      \cup {FrameCategories({"bareHands"}, c) : c \in Confidences}

\* orders in which k frames are listed again: rotated, reversed, or with two
\* neighbours exchanged (every order of up to three frames)
Orders(k) ==
  {[i \in 1..k |-> ((i - 1 + r) % k) + 1] : r \in 0..(k - 1)}
  \cup {[i \in 1..k |-> k + 1 - i]}
  \cup {[i \in 1..k |-> IF i = a THEN a + 1 ELSE IF i = a + 1 THEN a ELSE i] :
           a \in 1..(k - 1)}

\* the aggregator is to be called on a list, on the same list again, and on
\* the list in another order
InitAggregate ==
  /\ pc = "aggregate"
  /\ \E k \in 0..MaxAggregated : \E reports \in [1..k -> Reports] : \E order \in Orders(k) :
        LET list == [i \in 1..k |-> FrameAnalysis(SUBSAMPLE_STRIDE * (i - 1), reports[i])]
        IN  callInputs = <<list, list, [i \in 1..k |-> list[order[i]]]>>
  /\ callResults = <<>>
  /\ analyses = <<>>
  /\ labelResults = <<>>
  /\ totalFrames = 0
  /\ detections = NoValue
  /\ result = NoValue
  /\ RunIdle
  /\ PageIdle
  /\ BatchIdle
  /\ VendorIdle

\* one call of parseVLMResults; it has only locals, so it starts from nothing
\* earlier calls left behind
CallAggregator ==
  /\ pc = "aggregate"
  /\ LET input == callInputs[Len(callResults) + 1]
     IN  callResults' = Append(callResults, parseVLMResults(input, Len(input)))
  /\ pc' = IF Len(callResults) + 1 = Len(callInputs) THEN "aggregated" ELSE pc
  /\ UNCHANGED <<callInputs, analyses, labelResults, totalFrames, detections, result,
                 runVars, pageVars, batchVars, vendorVars>>

NextAggregate == CallAggregator

SpecAggregate == InitAggregate /\ [][NextAggregate]_vars

----------------------------------------------------------------------------
(* C23 *)

AllCallsReturned == pc = "aggregated"

SetOf(sequence) == {sequence[i] : i \in 1..Len(sequence)}

\* the second call returns what the first returned, and the call on the
\* reordered list returns the same timestamps and counts
SameTimestampsAndCounts ==
  /\ callResults[2] = callResults[1]
  /\ \A key \in Categories :
        /\ SetOf(callResults[3][key].detectedFrames) = SetOf(callResults[1][key].detectedFrames)
        /\ callResults[3][key].totalDetections = callResults[1][key].totalDetections

\* C23 as stated: two calls on the same list return identical aggregates, and
\* a call on a permutation of the list returns the same detectedFrames sets,
\* totalDetections and averageConfidence for every category.
C23_OrderIndependent ==
  AllCallsReturned =>
     /\ SameTimestampsAndCounts
     /\ \A key \in Categories :
           callResults[3][key].averageConfidence = callResults[1][key].averageConfidence

\* C23, amended: two calls on the same list return identical aggregates; a
\* call on a permutation returns the same detectedFrames sets and
\* totalDetections, and the same averageConfidence for every category that at
\* most two frames report.
C23_OrderIndependentUpToRounding ==
  AllCallsReturned =>
     /\ SameTimestampsAndCounts
     /\ \A key \in Categories :
           callResults[1][key].totalDetections <= 2 =>
              callResults[3][key].averageConfidence = callResults[1][key].averageConfidence

\* two frames report bare hands, and the list is called in another order:
\* the timestamps come in another order and the mean is the same
C23_Witness ==
  /\ AllCallsReturned
  /\ callInputs[3] # callInputs[1]
  /\ callResults[1]["bareHands"].totalDetections = 2
  /\ callResults[3]["bareHands"].detectedFrames # callResults[1]["bareHands"].detectedFrames
  /\ callResults[3]["bareHands"].averageConfidence = callResults[1]["bareHands"].averageConfidence
  /\ IsDouble(callResults[1]["bareHands"].averageConfidence)

----------------------------------------------------------------------------
(* C24 *)

\* the bucket of an overall score
BucketOf(score) ==
  IF NumGe(score, Num(90)) THEN "excellent"
  ELSE IF NumGe(score, Num(80)) THEN "good"
  ELSE IF NumGe(score, Num(70)) THEN "acceptable"
  ELSE IF NumGe(score, Num(60)) THEN "below-standard"
  ELSE "critical"

\* C24: the summary returned by calculateScores is the one of the bucket of
\* the overallScore returned with it.
C24_SummaryBucket ==
  Scored => result.summary.bucket = BucketOf(result.overallScore)

----------------------------------------------------------------------------
(* C25 *)

\* frames have been handed to analyzeFramesBatch
Sampled == Len(subsampledFrames) > 0

\* C25: for a duration d within [5, 300] extraction yields floor(d) frames,
\* the i-th (from 0) with frameNumber i + 1 and timestamp i; the frames
\* handed to the detector are every third of them, in order, at most 5; and
\* a run makes at most 5 detector calls.
C25_BoundedSampling ==
  /\ SumOf(calls) <= 5
  /\ Sampled =>
        LET count == actualDuration.num
            kept  == IF (count + 2) \div 3 < 5 THEN (count + 2) \div 3 ELSE 5
        IN  /\ actualDuration.den = 1 /\ count >= 5 /\ count <= 300
            /\ extracted = count
            /\ Len(subsampledFrames) = kept
            /\ \A k \in 1..kept :
                  /\ subsampledFrames[k].timestamp = 3 * (k - 1)
                  /\ subsampledFrames[k].frameNumber = subsampledFrames[k].timestamp + 1
                  /\ subsampledFrames[k].timestamp < count
            /\ Len(calls) = kept

\* a five-minute video: 300 frames extracted, those of the seconds 0, 3, 6, 9
\* and 12 handed to the detector
C25_Witness ==
  /\ pc = "detecting"
  /\ actualDuration = Num(300)
  /\ extracted = 300
  /\ Len(subsampledFrames) = 5
  /\ subsampledFrames[5].timestamp = 12
  /\ SumOf(calls) = 5

----------------------------------------------------------------------------
(* C26: a fatal error of analyzeVideo *)

\* the results view of the page is rendered (page.tsx 170-178)
ResultsShown == analysisStatus = "complete"

\* the message of a thrown error starts with 'Analysis failed:' exactly once
PrefixedOnce(error) ==
  \/ error.prefix = "Analysis failed: " /\ ~StartsWithAnalysisFailed(error.message)
  \/ error.prefix = "" /\ error.message = "Analysis failed: Unknown error"

\* C26: when analyzeVideo fails (duration out of range, extraction failure,
\* video too dark, every detection call rejected) the run has no analysis
\* result, the promise is rejected with a message that starts with
\* 'Analysis failed:' exactly once, the page holds no results and does not
\* show the results view, and once the catch of handleAnalysisStart has run
\* the status is idle
C26_FatalErrorAborts ==
  pc = "failed" =>
     /\ outcome.status = "thrown"
     /\ PrefixedOnce(outcome.error)
     /\ analysisResult = NoValue
     /\ analysisResults = <<>>
     /\ ~ResultsShown
     /\ (startedAs = <<>> => analysisStatus = "idle" /\ pageError = <<outcome.error>>)

\* every detection call of a run was rejected, the run started while an
\* earlier report was shown, and the catch of handleAnalysisStart has run
C26_Witness ==
  /\ pc = "failed"
  /\ Len(settled) > 0
  /\ \A i \in 1..Len(settled) : settled[i].status = "rejected"
  /\ pendingResultsRef # <<>>
  /\ startedAs = <<>>
  /\ analysisStatus = "idle"

----------------------------------------------------------------------------
(* The page: analyses, auth events and saves (src/app/page.tsx)

   analyzeVideo is taken by what it hands back to handleAnalysisStart: it
   resolves with a report or rejects.  One handleAnalysisStart call runs at a
   time.  A save request that was answered with ok also sets analysisId and
   vendorId, which are kept as the state "saved" of the request. *)

MaxAnalyses == 2

MaxSaves == 2

\* the users that a session of an auth event can carry
Users == {"vendor-1"}

\* the report of the k-th analysis
Report(k) == [analysis |-> k, overallScore |-> 100, keyFindings |-> <<>>]

InitPage ==
  /\ pc = "page"
  /\ video = [metadataLoads |-> TRUE, duration |-> Num(MIN_DURATION),
              estimatedDuration |-> Num(MIN_DURATION), brightness |-> Bright]
  /\ actualDuration = NoValue
  /\ extracted = 0
  /\ subsampledFrames = <<>>
  /\ calls = <<>>
  /\ exchanges = <<>>
  /\ settled = <<>>
  /\ notifications = <<>>
  /\ outcome = NoValue
  /\ analysisResult = NoValue
  /\ improvements = NoValue
  /\ analyses = <<>>
  /\ labelResults = <<>>
  /\ totalFrames = 0
  /\ detections = NoValue
  /\ result = NoValue
  /\ RestIdle

\* handleAnalysisStart up to its await (lines 74-83)
StartAnalysis ==
  /\ pc \in {"page", "done", "failed"}
  /\ startedAs = <<>>
  /\ analysesStarted < MaxAnalyses
  /\ analysisResults' = <<>>
  /\ pageError' = <<>>
  /\ analysisStatus' = "extracting"
  /\ startedAs' = <<user>>
  /\ analysesStarted' = analysesStarted + 1
  /\ pc' = "analyzing"
  /\ UNCHANGED <<user, pendingResultsRef, saves, runVars, offPageVars>>
  /\ UNCHANGED <<analyses, labelResults, totalFrames, detections, result>>

\* the promise of analyzeVideo settles
AnalysisSettles ==
  /\ pc = "analyzing"
  /\ \/ /\ analysisResult' = Report(analysesStarted)
        /\ outcome' = Returned
        /\ analysisStatus' = "analyzing"
        /\ pc' = "done"
     \/ /\ outcome' = ThrownError(ErrorOf("Video loading failed", ""))
        /\ UNCHANGED <<analysisResult, analysisStatus>>
        /\ pc' = "failed"
  /\ UNCHANGED <<analysisResults, pageError, startedAs, user, pendingResultsRef, saves,
                 analysesStarted, offPageVars>>
  /\ UNCHANGED <<video, actualDuration, extracted, detectorVars, notifications,
                 improvements>>
  /\ UNCHANGED <<analyses, labelResults, totalFrames, detections, result>>

\* the callback given to onAuthStateChange (lines 59-67)
AuthStateChange(newUser) ==
  /\ pc # "run"
  /\ Len(saves) < MaxSaves
  /\ user' = newUser
  /\ IF newUser # <<>> /\ pendingResultsRef # <<>>
     THEN saves' = Append(saves, [body |-> pendingResultsRef[1], state |-> "sent"])
     ELSE UNCHANGED saves
  /\ UNCHANGED <<pc, analysisStatus, analysisResults, pageError, startedAs,
                 pendingResultsRef, analysesStarted, runVars, offPageVars>>
  /\ UNCHANGED <<analyses, labelResults, totalFrames, detections, result>>

\* saveAnalysis after its fetch (lines 38-49): the response is ok, or it is
\* not ok or the fetch failed
SaveResponds(i, ok) ==
  /\ saves[i].state = "sent"
  /\ IF ok
     THEN /\ saves' = [saves EXCEPT ![i].state = "saved"]
          /\ pendingResultsRef' = <<>>
     ELSE /\ saves' = [saves EXCEPT ![i].state = "failed"]
          /\ UNCHANGED pendingResultsRef
  /\ UNCHANGED <<pc, analysisStatus, analysisResults, pageError, startedAs, user,
                 analysesStarted, runVars, offPageVars>>
  /\ UNCHANGED <<analyses, labelResults, totalFrames, detections, result>>

NextPage ==
  \/ StartAnalysis
  \/ AnalysisSettles
  \/ ShowResults
  \/ ReportFailure
  \/ \E newUser \in {<<>>} \cup {<<u>> : u \in Users} : AuthStateChange(newUser)
  \/ \E i \in 1..(MaxSaves + MaxAnalyses) : \E ok \in BOOLEAN :
        i <= Len(saves) /\ SaveResponds(i, ok)

SpecPage == InitPage /\ [][NextPage]_vars

----------------------------------------------------------------------------
(* C29: saves of a completed analysis *)

\* the requests to /api/saveAnalysis that carry the report of analysis k
SavesOf(k) == {i \in 1..Len(saves) : saves[i].body.results = Report(k)}

\* C29: every completed analysis is sent to the save endpoint at most once
C29_SavedAtMostOnce ==
  \A k \in 1..MaxAnalyses : Cardinality(SavesOf(k)) <= 1

----------------------------------------------------------------------------
(* C30: the time label of a key finding *)

\* C30: in the report of a completed run a key finding is labelled
\* 'Throughout' only if its category has no detected timestamp at all
C30_ThroughoutOnlyUndetected ==
  pc = "done" =>
    \A i \in 1..Len(analysisResult.keyFindings) :
       analysisResult.keyFindings[i].timestamp.text = "Throughout"
         => detections[KeyOf(result.findings[i])].detectedFrames = <<>>

----------------------------------------------------------------------------
(* detectLabelsBatch (src/lib/cv-service.ts 71-140)

   One call on a list of frames.  Every detectLabels call of a group is made
   in the same synchronous batch.map; each settles in its own step; the
   forEach after Promise.allSettled is one step. *)

MaxBatchFrames == 7

BATCH_SIZE == 5

\* no detectLabels call was made for the frame yet
NotCalled == [status |-> "none", value |-> NoValue, reason |-> ""]

\* what detectLabels resolves with for a frame
LabelsOf(frame) ==
  [labels |-> <<Label("Glove", 9), Label("Hand", 8)>>, frameNumber |-> frame.frameNumber,
   timestamp |-> frame.timestamp]

\* the messages detectLabels rejects with
LabelFailures == {"CV detection failed", "Quota exceeded for quota metric"}

RECURSIVE AllLabels(_)
\* the labels of the fulfilled results, in the order lines 99-105 visit them
AllLabels(detected) ==
  IF detected = <<>> THEN <<>>
  ELSE Head(detected).labels \o AllLabels(Tail(detected))

\* lines 119-139: the error if every frame failed, else the batch result
LabelBatchOutcome(frameCount, detected, messages) ==
  IF Len(detected) = 0 /\ frameCount > 0
  THEN LET firstError == IF messages = <<>> THEN "Unknown error" ELSE messages[1]
       IN  [threw |-> TRUE,
            error |->
              IF MessageIncludes(firstError, "billing")
              THEN ErrorOf("Google Cloud Vision API requires billing to be enabled. Please enable billing on your project and try again.", "")
              ELSE IF MessageIncludes(firstError, "API key")
                      \/ MessageIncludes(firstError, "UNAUTHENTICATED")
              THEN ErrorOf("Invalid or missing API key. Please ensure your API key is valid, has Vision API enabled, and billing is active. See console for details.", "")
              ELSE IF MessageIncludes(firstError, "quota")
              THEN ErrorOf("API quota exceeded. Please check your Google Cloud quota limits.", "")
              ELSE ErrorOf("Computer vision analysis failed: ", firstError),
            detections |-> <<>>, totalFrames |-> 0, averageConfidence |-> Num(0)]
  ELSE LET totalConfidence == SumScores(AllLabels(detected))
           confidenceCount == Len(AllLabels(detected))
       IN  [threw |-> FALSE, error |-> ErrorOf("", ""),
            detections |-> detected, totalFrames |-> frameCount,
            averageConfidence |-> IF confidenceCount > 0
                                  THEN NumDiv(totalConfidence, Num(confidenceCount))
                                  ELSE Num(0)]

InitLabelBatch ==
  /\ pc = "batch"
  /\ \E k \in 0..MaxBatchFrames :
        /\ batchFrames = [i \in 1..k |-> [frameNumber |-> i, timestamp |-> i - 1]]
        /\ labelCalls = [i \in 1..k |-> NotCalled]
  /\ batchStart = 0
  /\ processedCount = 0
  /\ batchDetections = <<>>
  /\ batchErrors = <<>>
  /\ progressCalls = <<>>
  /\ batchReturn = NoValue
  /\ analyses = <<>>
  /\ labelResults = <<>>
  /\ totalFrames = 0
  /\ detections = NoValue
  /\ result = NoValue
  /\ RunIdle
  /\ AggregatorIdle
  /\ PageIdle
  /\ VendorIdle

\* frames.slice(i, i + BATCH_SIZE), as positions in frames
BatchAt(start) ==
  {i \in 1..Len(batchFrames) : start < i /\ i <= start + BATCH_SIZE}

\* faulty variant: every remaining frame is sent at once
StartGroup_WholeList ==
  /\ pc = "batch"
  /\ batchStart < Len(batchFrames)
  /\ labelCalls' = [i \in 1..Len(batchFrames) |->
                      IF i > batchStart THEN Pending ELSE labelCalls[i]]
  /\ pc' = "settling"
  /\ UNCHANGED <<batchFrames, batchStart, processedCount, batchDetections, batchErrors,
                 progressCalls, batchReturn>>
  /\ UNCHANGED <<analysisVars, aggregatorVars, pageVars, vendorVars>>

\* lines 84-92: the loop test holds and the calls of the next group are made
StartGroup ==
  /\ pc = "batch"
  /\ batchStart < Len(batchFrames)
  /\ labelCalls' = [i \in 1..Len(batchFrames) |->
                      IF i \in BatchAt(batchStart) THEN Pending ELSE labelCalls[i]]
  /\ pc' = "settling"
  /\ UNCHANGED <<batchFrames, batchStart, processedCount, batchDetections, batchErrors,
                 progressCalls, batchReturn>>
  /\ UNCHANGED <<analysisVars, aggregatorVars, pageVars, vendorVars>>

\* one detectLabels promise settles (lines 31-63)
SettleLabels(i) ==
  /\ pc = "settling"
  /\ labelCalls[i].status = "pending"
  /\ \/ labelCalls' = [labelCalls EXCEPT
                         ![i] = [status |-> "fulfilled", value |-> LabelsOf(batchFrames[i]),
                                 reason |-> ""]]
     \/ \E message \in LabelFailures :
           labelCalls' = [labelCalls EXCEPT
                            ![i] = [status |-> "rejected", value |-> NoValue,
                                    reason |-> message]]
  /\ UNCHANGED <<pc, batchFrames, batchStart, processedCount, batchDetections, batchErrors,
                 progressCalls, batchReturn>>
  /\ UNCHANGED <<analysisVars, aggregatorVars, pageVars, vendorVars>>

\* the positions of the calls that have been made and not settled
InFlight == {i \in 1..Len(labelCalls) : labelCalls[i].status = "pending"}

\* lines 88-116: Promise.allSettled resolves and batchResults.forEach runs on
\* the results of the calls that were made for this group
CollectGroup ==
  /\ pc = "settling"
  /\ InFlight = {}
  /\ LET batchResults == SelectSeq(SubSeq(labelCalls, batchStart + 1, Len(labelCalls)),
                                   LAMBDA r : r.status # "none")
     IN  /\ batchDetections' = batchDetections \o FulfilledValues(batchResults)
         /\ batchErrors' = batchErrors \o RejectionMessages(batchResults)
         /\ processedCount' = processedCount + Len(batchResults)
         /\ progressCalls' =
               progressCalls
               \o [k \in 1..Len(batchResults) |->
                     [current |-> processedCount + k, total |-> Len(batchFrames)]]
  /\ batchStart' = batchStart + BATCH_SIZE
  /\ pc' = "batch"
  /\ UNCHANGED <<batchFrames, labelCalls, batchReturn>>
  /\ UNCHANGED <<analysisVars, aggregatorVars, pageVars, vendorVars>>

\* lines 84 and 119-139: the loop test fails
FinishBatch ==
  /\ pc = "batch"
  /\ batchStart >= Len(batchFrames)
  /\ batchReturn' = LabelBatchOutcome(Len(batchFrames), batchDetections, batchErrors)
  /\ pc' = "batched"
  /\ UNCHANGED <<batchFrames, batchStart, labelCalls, processedCount, batchDetections,
                 batchErrors, progressCalls>>
  /\ UNCHANGED <<analysisVars, aggregatorVars, pageVars, vendorVars>>

NextLabelBatch ==
  \/ StartGroup
  \/ \E i \in 1..(MaxBatchFrames + 1) : i <= Len(labelCalls) /\ SettleLabels(i)
  \/ CollectGroup
  \/ FinishBatch

SpecLabelBatch == InitLabelBatch /\ [][NextLabelBatch]_vars

----------------------------------------------------------------------------
(* C27 *)

\* the group of a frame position: 0 for the first BATCH_SIZE frames, and so on
GroupOf(i) == (i - 1) \div BATCH_SIZE

\* C27: the calls are made in consecutive groups of 5 (the frames called so
\* far are the first ones of the list, whole groups at a time), at most 5
\* calls are in flight, no call of a group is made before every call of the
\* groups before it has settled, and onProgress has been invoked once per
\* processed frame with the counts 1, 2, ... and the total frames.length,
\* reaching frames.length when the call returns or throws
C27_GroupsOfFive ==
  pc \in {"batch", "settling", "batched"} =>
     LET called == {i \in 1..Len(labelCalls) : labelCalls[i].status # "none"}
         n      == Len(batchFrames)
     IN  /\ Cardinality(InFlight) <= BATCH_SIZE
         /\ \E groups \in 0..(MaxBatchFrames + 1) :
               called = {i \in 1..n : GroupOf(i) < groups}
         /\ \A i \in called : \A j \in 1..n :
               GroupOf(j) < GroupOf(i) => labelCalls[j].status \in {"fulfilled", "rejected"}
         /\ Len(progressCalls) = processedCount
         /\ \A k \in 1..Len(progressCalls) :
               progressCalls[k] = [current |-> k, total |-> n]
         /\ processedCount <= n
         /\ (pc = "batched" => processedCount = n)

\* a call on seven frames has returned: two groups, some calls rejected
C27_Witness ==
  /\ pc = "batched"
  /\ Len(batchFrames) = 7
  /\ Len(progressCalls) = 7
  /\ Len(batchErrors) = 2
  /\ ~batchReturn.threw

----------------------------------------------------------------------------
(* claim_vendor (src/unnamed/part_010 131-169)

   Each call is one transaction at the default isolation level, read
   committed: its select reads the rows as last committed, its update waits
   while another transaction that has not committed holds the lock of the row
   and then writes the latest committed version of the row, and what it wrote
   is seen by others when it commits.  A null column is <<>>, a value v is
   <<v>>.  now() is the position of the call among the calls begun. *)

MaxClaimCalls == 3

\* the one vendor id the calls are about
VendorId == "vendor-1"

VendorRow(user_id, email, is_anonymous, claimed_at) ==
  [id |-> VendorId, user_id |-> user_id, email |-> email, is_anonymous |-> is_anonymous,
   claimed_at |-> claimed_at]

\* public.vendors before the calls: without the vendor, with the vendor
\* anonymous and unowned, claimed by an earlier user, and the two mixed rows
VendorTables ==
  { <<>>,
    <<VendorRow(<<>>, <<>>, TRUE, <<>>)>>,
    <<VendorRow(<<"user-0">>, <<"user-0@example.com">>, FALSE, <<0>>)>>,
    <<VendorRow(<<"user-0">>, <<>>, TRUE, <<>>)>>,
    <<VendorRow(<<>>, <<>>, FALSE, <<>>)>> }

\* the users that call claim_vendor, one call each
Claimant(s) ==
  CASE s = 1 -> "user-1"
    [] s = 2 -> "user-2"
    [] s = 3 -> "user-3"
    [] OTHER -> "user-4"

EmailOf(claimant) ==
  CASE claimant = "user-1" -> "user-1@example.com"
    [] claimant = "user-2" -> "user-2@example.com"
    [] claimant = "user-3" -> "user-3@example.com"
    [] OTHER -> "user-4@example.com"

InitClaim ==
  /\ pc = "claims"
  /\ vendors \in VendorTables
  /\ rowLocks = <<>>
  /\ claimCalls = [s \in 1..MaxClaimCalls |->
                     [at |-> "begin", p_vendor_id |-> VendorId, p_user_id |-> Claimant(s),
                      p_email |-> EmailOf(Claimant(s)), startedAt |-> 0,
                      outcome |-> ""]]
  /\ analyses = <<>>
  /\ labelResults = <<>>
  /\ totalFrames = 0
  /\ detections = NoValue
  /\ result = NoValue
  /\ RunIdle
  /\ AggregatorIdle
  /\ PageIdle
  /\ BatchIdle

\* the committed rows with the given id
RowsOf(id) == SelectSeq(vendors, LAMBDA row : row.id = id)

\* lines 145-155: the select and the two checks
SelectVendor(s) ==
  /\ claimCalls[s].at = "begin"
  /\ LET found == RowsOf(claimCalls[s].p_vendor_id)
         begun == Cardinality({t \in 1..Len(claimCalls) : claimCalls[t].at # "begin"})
     IN  claimCalls' =
           [claimCalls EXCEPT
              ![s] = IF found = <<>>
                     THEN [@ EXCEPT !.at = "ended", !.startedAt = begun + 1,
                                    !.outcome = "Vendor not found"]
                     ELSE IF ~found[1].is_anonymous \/ found[1].user_id # <<>>
                     THEN [@ EXCEPT !.at = "ended", !.startedAt = begun + 1,
                                    !.outcome = "Vendor already claimed"]
                     ELSE [@ EXCEPT !.at = "update", !.startedAt = begun + 1]]
  /\ UNCHANGED <<pc, vendors, rowLocks>>
  /\ UNCHANGED <<analysisVars, aggregatorVars, pageVars, batchVars>>

\* lines 158-164: the update, once no other transaction holds the row
UpdateVendor(s) ==
  /\ claimCalls[s].at = "update"
  /\ \A k \in 1..Len(rowLocks) : rowLocks[k].id # claimCalls[s].p_vendor_id
  /\ LET row == RowsOf(claimCalls[s].p_vendor_id)[1]
     IN  rowLocks' =
           Append(rowLocks,
                  [id |-> row.id, holder |-> s,
                   row |-> [row EXCEPT !.user_id = <<claimCalls[s].p_user_id>>,
                                       !.email = <<claimCalls[s].p_email>>,
                                       !.is_anonymous = FALSE,
                                       !.claimed_at = <<claimCalls[s].startedAt>>]])
  /\ claimCalls' = [claimCalls EXCEPT ![s].at = "commit"]
  /\ UNCHANGED <<pc, vendors>>
  /\ UNCHANGED <<analysisVars, aggregatorVars, pageVars, batchVars>>

\* line 166 and the end of the transaction: return true, commit
CommitClaim(s) ==
  /\ claimCalls[s].at = "commit"
  /\ LET mine == SelectSeq(rowLocks, LAMBDA lock : lock.holder = s)
     IN  /\ vendors' = [k \in 1..Len(vendors) |->
                          IF vendors[k].id = mine[1].id THEN mine[1].row ELSE vendors[k]]
         /\ rowLocks' = SelectSeq(rowLocks, LAMBDA lock : lock.holder # s)
  /\ claimCalls' = [claimCalls EXCEPT ![s].at = "ended", ![s].outcome = "true"]
  /\ UNCHANGED pc
  /\ UNCHANGED <<analysisVars, aggregatorVars, pageVars, batchVars>>

NextClaim ==
  \E s \in 1..(MaxClaimCalls + 1) :
     s <= Len(claimCalls) /\ (SelectVendor(s) \/ UpdateVendor(s) \/ CommitClaim(s))

SpecClaim == InitClaim /\ [][NextClaim]_vars

----------------------------------------------------------------------------
(* C28 *)

\* the calls that returned true
Claimed == {s \in 1..Len(claimCalls) : claimCalls[s].outcome = "true"}

\* C28: a vendor is claimed at most once: of the claim_vendor calls for one
\* vendor at most one returns true, and the row of a vendor a call returned
\* true for is owned by the user of that call
C28_ClaimedAtMostOnce ==
  pc = "claims" =>
     /\ Cardinality(Claimed) <= 1
     /\ \A s \in Claimed : RowsOf(VendorId)[1].user_id = <<claimCalls[s].p_user_id>>

====
